---- MODULE Spec2Model ----
(***************************************************************************)
(* eslint-plugin-route-guard: the route ledger (RouteTracker), the router  *)
(* prefix graph (RouterTracker), the path normalizer / conflict detector,  *)
(* the bounded cache and the no-duplicate-routes rule that drives them.    *)
(*                                                                         *)
(* Strings of the program are sequences of one-character strings, so that  *)
(* splitting, stripping, joining and key building are computed, not        *)
(* assumed.  JavaScript null / undefined are the markers Null / Undefined. *)
(***************************************************************************)
EXTENDS Integers, Sequences, FiniteSets, TLC

Null == <<"null">>
Undefined == <<"undefined">>
\* null where the program expects an object
NullObject == [isNull |-> TRUE]

(***************************************************************************)
(* String helpers                                                          *)
(***************************************************************************)
startsWith(s, c) == Len(s) > 0 /\ s[1] = c
endsWith(s, c) == Len(s) > 0 /\ s[Len(s)] = c

\* Positions of character c in s
Positions(s, c) == {i \in 1..Len(s) : s[i] = c}

Min(S) == CHOOSE x \in S : \A y \in S : x <= y

RECURSIVE StripLeadingSlashes(_)
StripLeadingSlashes(s) ==
  IF s # <<>> /\ Head(s) = "/" THEN StripLeadingSlashes(Tail(s)) ELSE s

RECURSIVE StripTrailingSlashes(_)
StripTrailingSlashes(s) ==
  IF s # <<>> /\ s[Len(s)] = "/"
  THEN StripTrailingSlashes(SubSeq(s, 1, Len(s) - 1))
  ELSE s

\* p.replace(/^\/+|\/+$/g, '')
StripSlashes(s) == StripTrailingSlashes(StripLeadingSlashes(s))

\* s.replace(/\/+/g, '/')
RECURSIVE CollapseSlashes(_)
CollapseSlashes(s) ==
  IF Len(s) < 2 THEN s
  ELSE IF s[1] = "/" /\ s[2] = "/" THEN CollapseSlashes(Tail(s))
  ELSE <<s[1]>> \o CollapseSlashes(Tail(s))

\* parts.join(sep)
RECURSIVE Join(_, _)
Join(parts, sep) ==
  IF parts = <<>> THEN <<>>
  ELSE IF Len(parts) = 1 THEN parts[1]
  ELSE parts[1] \o sep \o Join(Tail(parts), sep)

\* s.split('/'): the fragments between slashes, empty ones included
RECURSIVE SplitSlash(_)
SplitSlash(s) ==
  IF Positions(s, "/") = {} THEN <<s>>
  ELSE LET i == Min(Positions(s, "/"))
       IN <<SubSeq(s, 1, i - 1)>> \o SplitSlash(SubSeq(s, i + 1, Len(s)))

NonEmpty(s) == s # <<>>

MapSeq(f(_), s) == [i \in 1..Len(s) |-> f(s[i])]

(***************************************************************************)
(* path-utils                                                              *)
(***************************************************************************)
\* variant: a join that keeps the fragments of which nothing remains
joinPaths_keep_empty(parts) ==
  LET normalized == CollapseSlashes(Join(MapSeq(StripSlashes, parts), <<"/">>))
  IN IF normalized # <<>> THEN <<"/">> \o normalized ELSE <<"/">>

\* variant: a join that leaves repeated slashes inside a fragment
joinPaths_no_collapse(parts) ==
  LET normalized ==
        Join(SelectSeq(MapSeq(StripSlashes, parts), NonEmpty), <<"/">>)
  IN IF normalized # <<>> THEN <<"/">> \o normalized ELSE <<"/">>

joinPaths(parts) ==
  LET normalized ==
        CollapseSlashes(Join(SelectSeq(MapSeq(StripSlashes, parts), NonEmpty), <<"/">>))
  IN IF normalized # <<>> THEN <<"/">> \o normalized ELSE <<"/">>

isRootPath(path) == path = <<>> \/ path = <<"/">>

(***************************************************************************)
(* path-normalizer: segment grammar                                        *)
(***************************************************************************)
T_param == <<":", "p", "a", "r", "a", "m">>

\* baseSegment.match(/^:([^(]+)\*$/)
wildcardMatch(b) ==
  /\ Len(b) >= 3
  /\ b[1] = ":"
  /\ b[Len(b)] = "*"
  /\ \A i \in 2..(Len(b) - 1) : b[i] # "("

\* baseSegment.match(/^:([^(]+)(\(.+\))$/): the position of the opening
\* parenthesis of group 2, or 0 when the pattern does not match
regexMatchAt(b) ==
  LET opens == Positions(b, "(")
  IN IF /\ Len(b) >= 5
        /\ b[1] = ":"
        /\ opens # {}
        /\ Min(opens) >= 3
        /\ Len(b) - Min(opens) >= 2
        /\ b[Len(b)] = ")"
     THEN Min(opens) ELSE 0

\* baseSegment.match(/^:([^-:]+)-:(.+)$/): the position of the hyphen, or 0
fastifyMultiParamAt(b) ==
  LET cands == {k \in 3..(Len(b) - 2) :
                  /\ b[k] = "-" /\ b[k + 1] = ":"
                  /\ \A i \in 2..(k - 1) : b[i] # "-" /\ b[i] # ":"}
  IN IF Len(b) >= 5 /\ b[1] = ":" /\ cands # {} THEN Min(cands) ELSE 0

parsePathSegment(segment) ==
  IF segment = <<>>
  THEN [raw |-> segment, type |-> "static", normalized |-> segment,
        constraint |-> Undefined, paramName |-> Undefined]
  ELSE IF segment = <<"*">> \/ segment = <<"*", "*">>
  THEN [raw |-> segment, type |-> "wildcard", normalized |-> <<"*">>,
        constraint |-> Undefined, paramName |-> Undefined]
  ELSE IF startsWith(segment, ":")
  THEN LET optional == endsWith(segment, "?")
           baseSegment == IF optional THEN SubSeq(segment, 1, Len(segment) - 1)
                          ELSE segment
           k == regexMatchAt(baseSegment)
           m == fastifyMultiParamAt(baseSegment)
       IN IF wildcardMatch(baseSegment)
          THEN [raw |-> segment, type |-> "wildcard", normalized |-> <<"*">>,
                constraint |-> Undefined,
                paramName |-> SubSeq(baseSegment, 2, Len(baseSegment) - 1)]
          ELSE IF k # 0
          THEN [raw |-> segment, type |-> "regex-param", normalized |-> T_param,
                constraint |-> SubSeq(baseSegment, k, Len(baseSegment)),
                paramName |-> SubSeq(baseSegment, 2, k - 1)]
          ELSE IF m # 0
          THEN [raw |-> segment, type |-> "param",
                normalized |-> T_param \o <<"-">> \o T_param,
                constraint |-> Undefined,
                paramName |-> SubSeq(baseSegment, 2, m - 1) \o <<"-">>
                              \o SubSeq(baseSegment, m + 2, Len(baseSegment))]
          ELSE [raw |-> segment,
                type |-> IF optional THEN "optional-param" ELSE "param",
                normalized |-> IF optional THEN T_param \o <<"?">> ELSE T_param,
                constraint |-> Undefined,
                paramName |-> SubSeq(baseSegment, 2, Len(baseSegment))]
  ELSE [raw |-> segment, type |-> "static", normalized |-> segment,
        constraint |-> Undefined, paramName |-> Undefined]

\* new RegExp(pattern) returns rather than throws; of the pattern syntax the
\* model knows the character class: a "[" needs a "]" after it
regExpCompiles(pattern) ==
  \A i \in Positions(pattern, "[") : \E j \in Positions(pattern, "]") : j > i

\* extractParamConstraint: the pattern text of a constraint that compiles, or Null
extractParamConstraint(segment) ==
  LET parsed == parsePathSegment(segment)
  IN IF parsed.type # "regex-param" \/ parsed.constraint = Undefined
        \/ parsed.constraint = <<>>
     THEN Null
     ELSE LET pattern == SubSeq(parsed.constraint, 2, Len(parsed.constraint) - 1)
          IN IF regExpCompiles(pattern) THEN pattern ELSE Null

parsePathSegments(path) ==
  IF path = <<>> \/ path = <<"/">> THEN <<>>
  ELSE LET normalized == IF startsWith(path, "/") THEN Tail(path) ELSE path
           segments == SelectSeq(SplitSlash(normalized), NonEmpty)
       IN MapSeq(parsePathSegment, segments)

(***************************************************************************)
(* performance-cache: PerformanceCache<K, V>.  entries is the JavaScript   *)
(* Map in iteration (insertion) order, oldest first.                       *)
(***************************************************************************)
NormalizationCacheSize == 2000

newCache(maxSize) == [entries |-> <<>>, hits |-> 0, misses |-> 0, maxSize |-> maxSize]

MapHas(m, key) == \E i \in 1..Len(m) : m[i].key = key
MapGet(m, key) ==
  IF MapHas(m, key) THEN m[CHOOSE i \in 1..Len(m) : m[i].key = key].value
  ELSE Undefined
MapDelete(m, key) == SelectSeq(m, LAMBDA e : e.key # key)
\* Map.prototype.set: an existing key keeps its position, a new key goes last
MapSet(m, key, value) ==
  IF MapHas(m, key)
  THEN [i \in 1..Len(m) |-> IF m[i].key = key THEN [key |-> key, value |-> value]
                             ELSE m[i]]
  ELSE Append(m, [key |-> key, value |-> value])

\* variant: a get that leaves a hit entry where it is
cache_get_in_place(c, key) ==
  LET value == MapGet(c.entries, key)
  IN IF value # Undefined
     THEN [value |-> value, cache |-> [c EXCEPT !.hits = @ + 1]]
     ELSE [value |-> value, cache |-> [c EXCEPT !.misses = @ + 1]]

\* get(key): the value (or Undefined) and the cache afterwards
cache_get(c, key) ==
  LET value == MapGet(c.entries, key)
  IN IF value # Undefined
     THEN [value |-> value,
           cache |-> [c EXCEPT !.hits = @ + 1,
                               !.entries = MapSet(MapDelete(@, key), key, value)]]
     ELSE [value |-> value, cache |-> [c EXCEPT !.misses = @ + 1]]

\* variant: a set that evicts only once the capacity is exceeded
cache_set_late(c, key, value) ==
  LET afterEvict ==
        IF MapHas(c.entries, key) THEN MapDelete(c.entries, key)
        ELSE IF Len(c.entries) > c.maxSize
        THEN (IF c.entries # <<>> THEN Tail(c.entries) ELSE c.entries)
        ELSE c.entries
  IN [c EXCEPT !.entries = MapSet(afterEvict, key, value)]

cache_set(c, key, value) ==
  LET afterEvict ==
        IF MapHas(c.entries, key) THEN MapDelete(c.entries, key)
        ELSE IF Len(c.entries) >= c.maxSize
        THEN (IF c.entries # <<>> THEN Tail(c.entries) ELSE c.entries)
        ELSE c.entries
  IN [c EXCEPT !.entries = MapSet(afterEvict, key, value)]

\* variant: a clear that empties the entries and keeps the counters
cache_clear_entries(c) == [c EXCEPT !.entries = <<>>]

cache_clear(c) ==
  [c EXCEPT !.entries = <<>>, !.hits = 0, !.misses = 0]

(***************************************************************************)
(* path-normalizer: normalizePathWithLevel and detectPathConflict          *)
(***************************************************************************)
levelStr(level) == IF level = 0 THEN <<"0">> ELSE IF level = 1 THEN <<"1">> ELSE <<"2">>
boolStr(b) == IF b THEN <<"t", "r", "u", "e">> ELSE <<"f", "a", "l", "s", "e">>

\* variant: a cache key without the level
cacheKey_no_level(path, level, preserveConstraints) ==
  path \o <<":">> \o boolStr(preserveConstraints)

\* `${path}:${level}:${preserveConstraints}`
cacheKey(path, level, preserveConstraints) ==
  path \o <<":">> \o levelStr(level) \o <<":">> \o boolStr(preserveConstraints)

\* variant: a normalization that keeps every segment as written
normalizeSegments_raw(path, level, preserveConstraints) ==
  LET segments == parsePathSegments(path)
      raw(seg) == seg.raw
      normalizedSegments == MapSeq(raw, segments)
  IN IF Len(normalizedSegments) > 0
     THEN <<"/">> \o Join(normalizedSegments, <<"/">>)
     ELSE <<"/">>

\* variant: a normalization that writes a multi-parameter segment with one colon
normalizeSegments_one_colon(path, level, preserveConstraints) ==
  LET segments == parsePathSegments(path)
      norm(seg) == IF level = 0 THEN seg.raw
                   ELSE IF seg.normalized = T_param \o <<"-">> \o T_param
                   THEN T_param \o <<"-">> \o Tail(T_param)
                   ELSE IF level = 2 /\ seg.type = "regex-param" /\ ~preserveConstraints
                   THEN T_param
                   ELSE seg.normalized
      normalizedSegments == MapSeq(norm, segments)
  IN IF Len(normalizedSegments) > 0
     THEN <<"/">> \o Join(normalizedSegments, <<"/">>)
     ELSE <<"/">>

\* variant: a normalization that writes a wildcard as a parameter
normalizeSegments_wildcard_param(path, level, preserveConstraints) ==
  LET segments == parsePathSegments(path)
      norm(seg) == IF level = 0 THEN seg.raw
                   ELSE IF seg.type = "wildcard" THEN T_param
                   ELSE IF level = 2 /\ seg.type = "regex-param" /\ ~preserveConstraints
                   THEN T_param
                   ELSE seg.normalized
      normalizedSegments == MapSeq(norm, segments)
  IN IF Len(normalizedSegments) > 0
     THEN <<"/">> \o Join(normalizedSegments, <<"/">>)
     ELSE <<"/">>

\* variant: a level 2 normalization that keeps the constraint text when
\* preserveConstraints is set
normalizeSegments_preserving(path, level, preserveConstraints) ==
  LET segments == parsePathSegments(path)
      norm(seg) == IF level = 1 THEN seg.normalized
                   ELSE IF level = 2
                   THEN (IF seg.type = "regex-param"
                         THEN (IF preserveConstraints THEN T_param \o seg.constraint
                               ELSE T_param)
                         ELSE seg.normalized)
                   ELSE seg.raw
      normalizedSegments == MapSeq(norm, segments)
  IN IF Len(normalizedSegments) > 0
     THEN <<"/">> \o Join(normalizedSegments, <<"/">>)
     ELSE <<"/">>

\* the segment-wise computation on a cache miss (lines 123-141)
normalizeSegments(path, level, preserveConstraints) ==
  LET segments == parsePathSegments(path)
      norm(seg) == IF level = 1 THEN seg.normalized
                   ELSE IF level = 2
                   THEN (IF seg.type = "regex-param" /\ ~preserveConstraints
                         THEN T_param ELSE seg.normalized)
                   ELSE seg.raw
      normalizedSegments == MapSeq(norm, segments)
  IN IF Len(normalizedSegments) > 0
     THEN <<"/">> \o Join(normalizedSegments, <<"/">>)
     ELSE <<"/">>

\* the returned string and the normalization cache afterwards
normalizePathWithLevel(c, path, level, preserveConstraints) ==
  IF path = <<>> THEN [value |-> <<"/">>, cache |-> c]
  ELSE IF level = 0
  THEN [value |-> IF startsWith(path, "/") THEN path ELSE <<"/">> \o path, cache |-> c]
  ELSE LET key == cacheKey(path, level, preserveConstraints)
           got == cache_get(c, key)
       IN IF got.value # Undefined /\ got.value # <<>>
          THEN got
          ELSE LET result == normalizeSegments(path, level, preserveConstraints)
               IN [value |-> result, cache |-> cache_set(got.cache, key, result)]

\* variant: the static-against-dynamic rule tried before the wildcard rule
segmentPairConflict_static_first(seg1, seg2) ==
  IF \/ (seg1.type = "static" /\ seg2.type # "static")
     \/ (seg1.type # "static" /\ seg2.type = "static")
  THEN "static-dynamic"
  ELSE IF (seg1.type = "wildcard" \/ seg2.type = "wildcard") /\ seg1.type # seg2.type
  THEN "wildcard"
  ELSE IF /\ seg1.type = "regex-param"
          /\ seg2.type = "regex-param"
          /\ seg1.constraint # Undefined /\ seg1.constraint # <<>>
          /\ seg2.constraint # Undefined /\ seg2.constraint # <<>>
          /\ seg1.constraint # seg2.constraint
  THEN "different-constraints"
  ELSE "none"

\* the rule that stops the scan at one aligned segment pair, or "none"
segmentPairConflict(seg1, seg2) ==
  IF (seg1.type = "wildcard" \/ seg2.type = "wildcard") /\ seg1.type # seg2.type
  THEN "wildcard"
  ELSE IF \/ (seg1.type = "static" /\ seg2.type # "static")
          \/ (seg1.type # "static" /\ seg2.type = "static")
  THEN "static-dynamic"
  ELSE IF /\ seg1.type = "regex-param"
          /\ seg2.type = "regex-param"
          /\ seg1.constraint # Undefined /\ seg1.constraint # <<>>
          /\ seg2.constraint # Undefined /\ seg2.constraint # <<>>
          /\ seg1.constraint # seg2.constraint
  THEN "different-constraints"
  ELSE "none"

\* the ConflictType and the normalization cache afterwards
detectPathConflict(c, path1, path2, level) ==
  IF path1 = path2 THEN [type |-> "exact", cache |-> c]
  ELSE LET segments1 == parsePathSegments(path1)
           segments2 == parsePathSegments(path2)
       IN IF Len(segments1) # Len(segments2) THEN [type |-> "none", cache |-> c]
          ELSE LET stops == {i \in 1..Len(segments1) :
                               segmentPairConflict(segments1[i], segments2[i]) # "none"}
               IN IF stops # {}
                  THEN [type |-> segmentPairConflict(segments1[Min(stops)],
                                                     segments2[Min(stops)]),
                        cache |-> c]
                  ELSE LET n1 == normalizePathWithLevel(c, path1, level, FALSE)
                           n2 == normalizePathWithLevel(n1.cache, path2, level, FALSE)
                       IN IF n1.value = n2.value /\ level > 0
                          THEN [type |-> "param-name", cache |-> n2.cache]
                          ELSE [type |-> "none", cache |-> n2.cache]

(***************************************************************************)
(* route-tracker: RouteTracker.  A tracker is [routes, currentLintId];     *)
(* routes is the Map from `${method}:${path}` to the registration.         *)
(***************************************************************************)
newRouteTracker == [routes |-> <<>>, currentLintId |-> Null]

routeKey(route) == route.method \o <<":">> \o route.path

\* variant: a reset that clears whatever id it is given
RouteTracker_reset_always(t, lintId) == [routes |-> <<>>, currentLintId |-> lintId]

RouteTracker_reset(t, lintId) ==
  IF t.currentLintId # lintId
  THEN [routes |-> <<>>, currentLintId |-> lintId]
  ELSE t

\* variant: a register that replaces the record it finds
RouteTracker_register_overwrite(t, route) ==
  LET key == routeKey(route)
  IN IF MapHas(t.routes, key)
     THEN [result |-> MapGet(t.routes, key),
           tracker |-> [t EXCEPT !.routes = MapSet(@, key, route)]]
     ELSE [result |-> NullObject,
           tracker |-> [t EXCEPT !.routes = MapSet(@, key, route)]]

\* the returned registration (or Null) and the tracker afterwards
RouteTracker_register(t, route) ==
  LET key == routeKey(route)
  IN IF MapHas(t.routes, key)
     THEN [result |-> MapGet(t.routes, key), tracker |-> t]
     ELSE [result |-> NullObject,
           tracker |-> [t EXCEPT !.routes = MapSet(@, key, route)]]

getRoutes(t) == [i \in 1..Len(t.routes) |-> t.routes[i].value]

RouteTracker_clear(t) == [routes |-> <<>>, currentLintId |-> Null]

(***************************************************************************)
(* router-tracker: RouterTracker.  Binding objects live in heap and are    *)
(* referred to by address, because the bindings Map and the export entries *)
(* share them (markExported stores the object, not a copy).                *)
(***************************************************************************)
DefaultMaxDepth == 5

newRouterTracker(maxDepth) ==
  [bindings |-> <<>>, exports |-> <<>>, imports |-> <<>>, currentFile |-> "",
   heap |-> <<>>, maxDepth |-> maxDepth]

resetFile(rt, filePath) == [rt EXCEPT !.currentFile = filePath, !.bindings = <<>>]

RouterTracker_reset(rt) ==
  [rt EXCEPT !.bindings = <<>>, !.exports = <<>>, !.imports = <<>>,
             !.currentFile = "", !.heap = <<>>]

registerBinding(rt, identifier, framework) ==
  LET binding == [identifier |-> identifier, framework |-> framework,
                  prefixes |-> <<>>, depth |-> 0, file |-> rt.currentFile,
                  exported |-> FALSE]
  IN [rt EXCEPT !.heap = Append(@, binding),
                !.bindings = MapSet(@, identifier, Len(rt.heap) + 1)]

\* whether the declarator is `id = <x>.Router()` / `id = Router()`
isRouterCreation(node) ==
  /\ node.type = "VariableDeclarator"
  /\ node.id.type = "Identifier"
  /\ node.init.type = "CallExpression"
  /\ \/ /\ node.init.callee.type = "MemberExpression"
        /\ node.init.callee.property.type = "Identifier"
        /\ node.init.callee.property.name \in {"Router", "router"}
     \/ /\ node.init.callee.type = "Identifier"
        /\ node.init.callee.name \in {"Router", "router"}

detectRouterCreation(rt, node, framework) ==
  IF isRouterCreation(node)
  THEN [result |-> TRUE, tracker |-> registerBinding(rt, node.id.name, framework)]
  ELSE [result |-> FALSE, tracker |-> rt]

\* variant: a detectPrefixApplication that takes the leading text of any
\* template for a literal prefix
detectPrefixApplication_any_template(node) ==
  IF \/ node.callee.type # "MemberExpression"
     \/ node.callee.property.type # "Identifier"
     \/ node.callee.property.name # "use"
  THEN [isNull |-> TRUE]
  ELSE IF Len(node.arguments) < 2 THEN [isNull |-> TRUE]
  ELSE LET prefixArg == node.arguments[1]
           routerArg == node.arguments[2]
           literal == prefixArg.type = "Literal"
           template == prefixArg.type = "TemplateLiteral"
       IN [isNull |-> FALSE,
           targetRouter |-> IF routerArg.type = "Identifier" THEN routerArg.name
                            ELSE "null",
           prefix |-> IF literal \/ template THEN prefixArg.value ELSE Null,
           isDynamic |-> ~(literal \/ template)]

\* null is [isNull |-> TRUE]; targetRouter null is "null", prefix null is Null
detectPrefixApplication(node) ==
  IF \/ node.callee.type # "MemberExpression"
     \/ node.callee.property.type # "Identifier"
     \/ node.callee.property.name # "use"
  THEN [isNull |-> TRUE]
  ELSE IF Len(node.arguments) < 2 THEN [isNull |-> TRUE]
  ELSE LET prefixArg == node.arguments[1]
           routerArg == node.arguments[2]
           literal == prefixArg.type = "Literal"
           template == prefixArg.type = "TemplateLiteral" /\ prefixArg.expressions = 0
       IN [isNull |-> FALSE,
           targetRouter |-> IF routerArg.type = "Identifier" THEN routerArg.name
                            ELSE "null",
           prefix |-> IF literal \/ template THEN prefixArg.value ELSE Null,
           isDynamic |-> ~(literal \/ template)]

\* variant: an applyPrefix that stores the root prefix like any other
applyPrefix_keeps_root(rt, identifier, prefix) ==
  IF ~MapHas(rt.bindings, identifier) THEN [result |-> FALSE, tracker |-> rt]
  ELSE LET a == MapGet(rt.bindings, identifier)
           newDepth == rt.heap[a].depth + 1
       IN IF newDepth > rt.maxDepth THEN [result |-> FALSE, tracker |-> rt]
          ELSE [result |-> TRUE,
                tracker |-> [rt EXCEPT !.heap[a].prefixes = Append(@, prefix),
                                       !.heap[a].depth = newDepth]]

\* variant: an applyPrefix that starts the prefix list anew at every mount
applyPrefix_replace(rt, identifier, prefix) ==
  IF ~MapHas(rt.bindings, identifier) THEN [result |-> FALSE, tracker |-> rt]
  ELSE IF isRootPath(prefix) THEN [result |-> TRUE, tracker |-> rt]
  ELSE LET a == MapGet(rt.bindings, identifier)
       IN [result |-> TRUE,
           tracker |-> [rt EXCEPT !.heap[a].prefixes = <<prefix>>,
                                  !.heap[a].depth = 1]]

\* variant: an applyPrefix whose ceiling is one level too high
applyPrefix_one_more(rt, identifier, prefix) ==
  IF ~MapHas(rt.bindings, identifier) THEN [result |-> FALSE, tracker |-> rt]
  ELSE IF isRootPath(prefix) THEN [result |-> TRUE, tracker |-> rt]
  ELSE LET a == MapGet(rt.bindings, identifier)
           newDepth == rt.heap[a].depth + 1
       IN IF newDepth > rt.maxDepth + 1 THEN [result |-> FALSE, tracker |-> rt]
          ELSE [result |-> TRUE,
                tracker |-> [rt EXCEPT !.heap[a].prefixes = Append(@, prefix),
                                       !.heap[a].depth = newDepth]]

\* variant: an applyPrefix that checks the depth before the root prefix
applyPrefix_depth_first(rt, identifier, prefix) ==
  IF ~MapHas(rt.bindings, identifier) THEN [result |-> FALSE, tracker |-> rt]
  ELSE LET a == MapGet(rt.bindings, identifier)
           newDepth == rt.heap[a].depth + 1
       IN IF newDepth > rt.maxDepth THEN [result |-> FALSE, tracker |-> rt]
          ELSE IF isRootPath(prefix) THEN [result |-> TRUE, tracker |-> rt]
          ELSE [result |-> TRUE,
                tracker |-> [rt EXCEPT !.heap[a].prefixes = Append(@, prefix),
                                       !.heap[a].depth = newDepth]]

\* the returned boolean and the tracker afterwards
applyPrefix(rt, identifier, prefix) ==
  IF ~MapHas(rt.bindings, identifier) THEN [result |-> FALSE, tracker |-> rt]
  ELSE IF isRootPath(prefix) THEN [result |-> TRUE, tracker |-> rt]
  ELSE LET a == MapGet(rt.bindings, identifier)
           newDepth == rt.heap[a].depth + 1
       IN IF newDepth > rt.maxDepth THEN [result |-> FALSE, tracker |-> rt]
          ELSE [result |-> TRUE,
                tracker |-> [rt EXCEPT !.heap[a].prefixes = Append(@, prefix),
                                       !.heap[a].depth = newDepth]]

\* variant: a resolution that uses the entry exported last
resolveImportedRouter_last(rt, localName) ==
  IF ~MapHas(rt.exports, localName) THEN Null
  ELSE LET exportMatches == MapGet(rt.exports, localName)
       IN IF Len(exportMatches) = 0 THEN Null
          ELSE joinPaths(rt.heap[exportMatches[Len(exportMatches)].binding].prefixes)

resolveImportedRouter(rt, localName) ==
  IF ~MapHas(rt.exports, localName) THEN Null
  ELSE LET exportMatches == MapGet(rt.exports, localName)
       IN IF Len(exportMatches) = 0 THEN Null
          ELSE joinPaths(rt.heap[exportMatches[1].binding].prefixes)

\* variant: a getEffectivePrefix that answers with the last applied prefix only
getEffectivePrefix_last(rt, identifier) ==
  IF ~MapHas(rt.bindings, identifier)
  THEN resolveImportedRouter(rt, identifier)
  ELSE LET binding == rt.heap[MapGet(rt.bindings, identifier)]
       IN IF Len(binding.prefixes) = 0 THEN Null
          ELSE joinPaths(<<binding.prefixes[Len(binding.prefixes)]>>)

\* variant: a getEffectivePrefix without the cross-file fallback
getEffectivePrefix_local(rt, identifier) ==
  IF ~MapHas(rt.bindings, identifier) THEN Null
  ELSE LET binding == rt.heap[MapGet(rt.bindings, identifier)]
       IN IF Len(binding.prefixes) = 0 THEN Null
          ELSE joinPaths(binding.prefixes)

\* variant: a getEffectivePrefix that follows an import record from the local
\* alias to the exported name
getEffectivePrefix_alias(rt, identifier) ==
  IF ~MapHas(rt.bindings, identifier)
  THEN LET name == IF ~MapHas(rt.exports, identifier) /\ MapHas(rt.imports, identifier)
                   THEN MapGet(rt.imports, identifier)[1].identifier
                   ELSE identifier
           imported == resolveImportedRouter(rt, name)
       IN IF imported # Null /\ imported # <<>> THEN imported ELSE Null
  ELSE LET binding == rt.heap[MapGet(rt.bindings, identifier)]
       IN IF Len(binding.prefixes) = 0 THEN Null
          ELSE joinPaths(binding.prefixes)

getEffectivePrefix(rt, identifier) ==
  IF ~MapHas(rt.bindings, identifier)
  THEN LET imported == resolveImportedRouter(rt, identifier)
       IN IF imported # Null /\ imported # <<>> THEN imported ELSE Null
  ELSE LET binding == rt.heap[MapGet(rt.bindings, identifier)]
       IN IF Len(binding.prefixes) = 0 THEN Null
          ELSE joinPaths(binding.prefixes)


\* variant: a markExported whose entry holds a copy of the binding
markExported_copy(rt, identifier) ==
  IF MapHas(rt.bindings, identifier)
  THEN LET a == MapGet(rt.bindings, identifier)
           copy == [rt.heap[a] EXCEPT !.exported = TRUE]
           exportInfo == [identifier |-> identifier, file |-> rt.currentFile,
                          binding |-> Len(rt.heap) + 1]
           existing == IF MapHas(rt.exports, identifier)
                       THEN MapGet(rt.exports, identifier) ELSE <<>>
       IN [rt EXCEPT !.heap = Append([@ EXCEPT ![a].exported = TRUE], copy),
                     !.exports = MapSet(@, identifier, Append(existing, exportInfo))]
  ELSE rt

\* variant: a markExported that keeps the latest entry of a name only
markExported_replace(rt, identifier) ==
  IF MapHas(rt.bindings, identifier)
  THEN LET a == MapGet(rt.bindings, identifier)
           exportInfo == [identifier |-> identifier, file |-> rt.currentFile,
                          binding |-> a]
       IN [rt EXCEPT !.heap[a].exported = TRUE,
                     !.exports = MapSet(@, identifier, <<exportInfo>>)]
  ELSE rt

markExported(rt, identifier) ==
  IF MapHas(rt.bindings, identifier)
  THEN LET a == MapGet(rt.bindings, identifier)
           exportInfo == [identifier |-> identifier, file |-> rt.currentFile,
                          binding |-> a]
           existing == IF MapHas(rt.exports, identifier)
                       THEN MapGet(rt.exports, identifier) ELSE <<>>
       IN [rt EXCEPT !.heap[a].exported = TRUE,
                     !.exports = MapSet(@, identifier, Append(existing, exportInfo))]
  ELSE rt

registerImport(rt, identifier, localName, from) ==
  LET importInfo == [identifier |-> identifier, localName |-> localName,
                     from |-> from, file |-> rt.currentFile]
      existing == IF MapHas(rt.imports, localName)
                  THEN MapGet(rt.imports, localName) ELSE <<>>
  IN [rt EXCEPT !.imports = MapSet(@, localName, Append(existing, importInfo))]

getBindings(rt) == [i \in 1..Len(rt.bindings) |->
                      [key |-> rt.bindings[i].key, value |-> rt.heap[rt.bindings[i].value]]]

(***************************************************************************)
(* State.  The module singletons, the closure of one create() call of the  *)
(* rule, what the rule reported, and the last call with its result.        *)
(***************************************************************************)
VARIABLES
  globalTracker,            \* route-tracker: globalTracker
  globalRouterTracker,      \* router-tracker: globalRouterTracker
  pathNormalizationCache,   \* performance-cache: pathNormalizationCache
  frameworkDetectionCache,  \* performance-cache: frameworkDetectionCache
  rule,                     \* create(): lintId, filename, frameworkContext, shouldSkipFile
  reports,                  \* context.report calls, in order
  pending,                  \* child nodes the traversal delivers next
  ret,                      \* the last call: operation, arguments, returned value
  registered,               \* history: register calls since the ledger was last emptied
  calls,                    \* history: for each of them, the route call it came from
  attempts,                 \* history: per binding object, applyPrefix calls with a non-root prefix
  touches,                  \* history: keys set or hit in a cache since it was last cleared
  steps                     \* number of calls / events still to come (bounds the exploration)

vars == <<globalTracker, globalRouterTracker, pathNormalizationCache,
          frameworkDetectionCache, rule, reports, pending, ret, registered, calls,
          attempts, touches, steps>>

FrameworkCacheSize == 500

NoRule == [created |-> FALSE]

InitCommon ==
  /\ globalTracker = newRouteTracker
  /\ pathNormalizationCache = newCache(NormalizationCacheSize)
  /\ frameworkDetectionCache = newCache(FrameworkCacheSize)
  /\ reports = <<>>
  /\ pending = <<>>
  /\ ret = [op |-> "init"]
  /\ registered = <<>>
  /\ calls = <<>>
  /\ attempts = <<>>
  /\ touches = <<>>

(***************************************************************************)
(* Inputs                                                                  *)
(***************************************************************************)
M_GET == <<"G", "E", "T">>
M_POST == <<"P", "O", "S", "T">>
Files == {"a.js", "b.js"}
LintIds == {<<"1">>, <<"2">>}

P_u == <<"/", "u">>
P_u_param == <<"/", "u", "/", ":", "p", "a", "r", "a", "m">>

LedgerRoutes ==
  [method : {M_GET, M_POST}, path : {P_u, P_u_param}, file : Files,
   line : {1}, column : {0}, framework : {"express"}]

(***************************************************************************)
(* The ledger driven directly (RouteTracker's public methods)              *)
(***************************************************************************)
MaxRegistrations == 3

RouterUnchanged == UNCHANGED <<globalRouterTracker, attempts, steps, calls>>
RuleUnchanged ==
  UNCHANGED <<pathNormalizationCache, frameworkDetectionCache, rule, reports, pending,
              touches>>

LedgerReset(lintId) ==
  /\ globalTracker' = RouteTracker_reset(globalTracker, lintId)
  /\ ret' = [op |-> "reset", lintId |-> lintId]
  /\ registered' = IF globalTracker.currentLintId # lintId THEN <<>> ELSE registered
  /\ RouterUnchanged /\ RuleUnchanged

LedgerRegister(route) ==
  /\ Len(registered) < MaxRegistrations
  /\ LET r == RouteTracker_register(globalTracker, route)
     IN /\ globalTracker' = r.tracker
        /\ ret' = [op |-> "register", route |-> route, result |-> r.result]
  /\ registered' = Append(registered, route)
  /\ RouterUnchanged /\ RuleUnchanged

LedgerGetRoutes ==
  /\ ret' = [op |-> "getRoutes", result |-> getRoutes(globalTracker)]
  /\ UNCHANGED <<globalTracker, registered>>
  /\ RouterUnchanged /\ RuleUnchanged

LedgerClear ==
  /\ globalTracker' = RouteTracker_clear(globalTracker)
  /\ ret' = [op |-> "clear"]
  /\ registered' = <<>>
  /\ RouterUnchanged /\ RuleUnchanged

InitLedger ==
  /\ InitCommon
  /\ steps = 0
  /\ rule = NoRule
  /\ globalRouterTracker = newRouterTracker(DefaultMaxDepth)

NextLedger ==
  \/ \E lintId \in LintIds : LedgerReset(lintId)
  \/ \E route \in LedgerRoutes : LedgerRegister(route)
  \/ LedgerGetRoutes
  \/ LedgerClear

SpecLedger == InitLedger /\ [][NextLedger]_vars

(***************************************************************************)
(* The router tracker driven directly (RouterTracker's public methods)     *)
(***************************************************************************)
MaxConfiguredDepth == 2
MaxTrackerOps == 6

RouterIds == {"r", "s"}
P_root == <<"/">>
P_a == <<"/", "a">>
P_v == <<"v", "/">>
P_empty == <<>>
Prefixes == {P_empty, P_root, P_a, P_v}

\* `const <name> = express.Router()`, `const <name> = Router()`, `const <name> = express()`
MemberRouterDeclarator(name) ==
  [type |-> "VariableDeclarator", id |-> [type |-> "Identifier", name |-> name],
   init |-> [type |-> "CallExpression",
             callee |-> [type |-> "MemberExpression",
                         property |-> [type |-> "Identifier", name |-> "Router"]]]]
BareRouterDeclarator(name) ==
  [type |-> "VariableDeclarator", id |-> [type |-> "Identifier", name |-> name],
   init |-> [type |-> "CallExpression",
             callee |-> [type |-> "Identifier", name |-> "Router"]]]
OtherDeclarator(name) ==
  [type |-> "VariableDeclarator", id |-> [type |-> "Identifier", name |-> name],
   init |-> [type |-> "CallExpression",
             callee |-> [type |-> "Identifier", name |-> "express"]]]

DeclaratorNodes ==
  {MemberRouterDeclarator("r"), BareRouterDeclarator("r"), OtherDeclarator("app")}

Step == steps > 0 /\ steps' = steps - 1

LedgerUnchanged == UNCHANGED <<globalTracker, registered, calls>>

TrackerResetFile(filePath) ==
  /\ Step
  /\ globalRouterTracker' = resetFile(globalRouterTracker, filePath)
  /\ ret' = [op |-> "resetFile", file |-> filePath]
  /\ UNCHANGED attempts
  /\ LedgerUnchanged /\ RuleUnchanged

TrackerReset ==
  /\ Step
  /\ globalRouterTracker' = RouterTracker_reset(globalRouterTracker)
  /\ ret' = [op |-> "fullReset"]
  /\ attempts' = <<>>
  /\ LedgerUnchanged /\ RuleUnchanged

TrackerDetectRouterCreation(node, framework) ==
  /\ Step
  /\ LET r == detectRouterCreation(globalRouterTracker, node, framework)
     IN /\ globalRouterTracker' = r.tracker
        /\ ret' = [op |-> "detectRouterCreation", identifier |-> node.id.name,
                   result |-> r.result]
        /\ attempts' = IF r.result THEN Append(attempts, <<>>) ELSE attempts
  /\ LedgerUnchanged /\ RuleUnchanged

\* history: a call with a non-root prefix on a bound identifier is an attempt
attemptsAfter(rt, att, identifier, prefix) ==
  IF MapHas(rt.bindings, identifier) /\ ~isRootPath(prefix)
  THEN [att EXCEPT ![MapGet(rt.bindings, identifier)] = Append(@, prefix)]
  ELSE att

TrackerApplyPrefix(identifier, prefix) ==
  /\ Step
  /\ LET r == applyPrefix(globalRouterTracker, identifier, prefix)
     IN /\ globalRouterTracker' = r.tracker
        /\ ret' = [op |-> "applyPrefix", identifier |-> identifier,
                   prefix |-> prefix, result |-> r.result]
  /\ attempts' = attemptsAfter(globalRouterTracker, attempts, identifier, prefix)
  /\ LedgerUnchanged /\ RuleUnchanged

TrackerGetEffectivePrefix(identifier) ==
  /\ Step
  /\ ret' = [op |-> "getEffectivePrefix", identifier |-> identifier,
             result |-> getEffectivePrefix(globalRouterTracker, identifier)]
  /\ UNCHANGED <<globalRouterTracker, attempts>>
  /\ LedgerUnchanged /\ RuleUnchanged

TrackerMarkExported(identifier) ==
  /\ Step
  /\ globalRouterTracker' = markExported(globalRouterTracker, identifier)
  /\ ret' = [op |-> "markExported", identifier |-> identifier]
  /\ UNCHANGED attempts
  /\ LedgerUnchanged /\ RuleUnchanged

TrackerRegisterImport(identifier, localName, from) ==
  /\ Step
  /\ globalRouterTracker' = registerImport(globalRouterTracker, identifier, localName, from)
  /\ ret' = [op |-> "registerImport", identifier |-> identifier, localName |-> localName]
  /\ UNCHANGED attempts
  /\ LedgerUnchanged /\ RuleUnchanged

InitRouter ==
  /\ InitCommon
  /\ steps = MaxTrackerOps
  /\ rule = NoRule
  /\ \E maxDepth \in 1..MaxConfiguredDepth :
       globalRouterTracker = newRouterTracker(maxDepth)

NextRouter ==
  \/ \E filePath \in Files : TrackerResetFile(filePath)
  \/ TrackerReset
  \/ \E node \in DeclaratorNodes : TrackerDetectRouterCreation(node, "express")
  \/ \E identifier \in RouterIds, prefix \in Prefixes : TrackerApplyPrefix(identifier, prefix)
  \/ \E identifier \in RouterIds : TrackerGetEffectivePrefix(identifier)
  \/ \E identifier \in RouterIds : TrackerMarkExported(identifier)
  \/ \E localName \in RouterIds : TrackerRegisterImport("r", localName, "./a")

SpecRouter == InitRouter /\ [][NextRouter]_vars

(***************************************************************************)
(* The router tracker driven through the life of one exported name: a      *)
(* router r is created, mounted and exported, possibly several times, and  *)
(* looked up from another file.                                            *)
(***************************************************************************)
InitExports ==
  /\ InitCommon
  /\ steps = MaxTrackerOps + 1
  /\ rule = NoRule
  /\ globalRouterTracker = newRouterTracker(DefaultMaxDepth)

NextExports ==
  \/ \E filePath \in Files : TrackerResetFile(filePath)
  \/ TrackerDetectRouterCreation(MemberRouterDeclarator("r"), "express")
  \/ TrackerApplyPrefix("r", P_a)
  \/ TrackerMarkExported("r")
  \/ \E identifier \in RouterIds : TrackerGetEffectivePrefix(identifier)

SpecExports == InitExports /\ [][NextExports]_vars

(***************************************************************************)
(* One PerformanceCache<string, string> of a small capacity driven         *)
(* directly (get, set, clear); the instance is held in the variable of     *)
(* the path-normalization cache, which differs from it in maxSize only.    *)
(***************************************************************************)
MaxCapacity == 2
MaxCacheOps == 5

CacheKeys == {"k1", "k2", "k3"}
CacheValues == {<<"v">>, <<"w">>}

CacheFrame ==
  UNCHANGED <<globalTracker, globalRouterTracker, frameworkDetectionCache, rule,
              reports, pending, registered, calls, attempts>>

CacheGet(key) ==
  /\ Step
  /\ LET got == cache_get(pathNormalizationCache, key)
     IN /\ pathNormalizationCache' = got.cache
        /\ ret' = [op |-> "get", key |-> key, value |-> got.value]
        /\ touches' = IF got.value # Undefined THEN Append(touches, key) ELSE touches
  /\ CacheFrame

CacheSet(key, value) ==
  /\ Step
  /\ pathNormalizationCache' = cache_set(pathNormalizationCache, key, value)
  /\ ret' = [op |-> "set", key |-> key, value |-> value]
  /\ touches' = Append(touches, key)
  /\ CacheFrame

CacheClear ==
  /\ Step
  /\ pathNormalizationCache' = cache_clear(pathNormalizationCache)
  /\ ret' = [op |-> "clear"]
  /\ touches' = <<>>
  /\ CacheFrame

InitCache ==
  /\ globalTracker = newRouteTracker
  /\ globalRouterTracker = newRouterTracker(DefaultMaxDepth)
  /\ frameworkDetectionCache = newCache(FrameworkCacheSize)
  /\ rule = NoRule
  /\ reports = <<>>
  /\ pending = <<>>
  /\ ret = [op |-> "init"]
  /\ registered = <<>>
  /\ calls = <<>>
  /\ attempts = <<>>
  /\ touches = <<>>
  /\ steps = MaxCacheOps
  /\ \E maxSize \in 1..MaxCapacity : pathNormalizationCache = newCache(maxSize)

NextCache ==
  \/ \E key \in CacheKeys : CacheGet(key)
  \/ \E key \in CacheKeys, value \in CacheValues : CacheSet(key, value)
  \/ CacheClear

SpecCache == InitCache /\ [][NextCache]_vars

(***************************************************************************)
(* rules/no-duplicate-routes: create() and its visitors.  An AST node is   *)
(* a record with the fields the rule reads.  FrameworkContext is the tuple *)
(* <<type, detectedFrom>>; frameworkContext null is Null.                  *)
(***************************************************************************)
MaxRuleEvents == 6
MaxRouteEvents == 4

HTTP_METHODS == {"get", "post", "put", "delete", "patch", "head", "options", "all"}

\* methodName.toUpperCase() for the method names the model feeds
toUpperCase(name) ==
  IF name = "get" THEN M_GET
  ELSE IF name = "post" THEN M_POST
  ELSE <<"?">>

\* extractMethodName: Null when the property is no HTTP method
extractMethodName(callee) ==
  IF callee.property.type = "Identifier" /\ callee.property.name \in HTTP_METHODS
  THEN toUpperCase(callee.property.name)
  ELSE Null

\* getRouterIdentifier: "null" when the object is no plain identifier
getRouterIdentifier(callee) ==
  IF callee.object.type = "Identifier" THEN callee.object.name ELSE "null"

\* extractLiteralPath: the literal's text, Null for anything that is no literal
extractLiteralPath(arg) ==
  IF arg.type = "Literal" THEN arg.value
  ELSE IF arg.type = "TemplateLiteral" /\ arg.expressions = 0 THEN arg.value
  ELSE Null

\* isValidPath: path.trim().length > 0
isValidPath(path) ==
  path # Null /\ \E i \in 1..Len(path) : path[i] # " "

\* create(): the closure of one file's rule instance
create(options, lintId, filename) ==
  [created |-> TRUE, options |-> options, lintId |-> lintId, filename |-> filename,
   frameworkContext |-> Null, shouldSkipFile |-> FALSE,
   maxRouterDepth |-> IF options.maxRouterDepth = 0 THEN DefaultMaxDepth
                      ELSE options.maxRouterDepth,
   normalizationLevel |-> options.level,
   warnOnConflicts |-> options.warnOnStaticVsDynamic]

\* frameworkDetector.detect: the context and the detection cache afterwards;
\* detected is what the override / import analysis yields on a cache miss
detect(c, detected, filePath) ==
  LET first == cache_get(c, filePath)
  IN IF first.value # Undefined
     THEN cache_get(first.cache, filePath)
     ELSE [value |-> detected, cache |-> cache_set(first.cache, filePath, detected)]

\* Program visitor of a freshly created rule instance
Program(filename, lintId, skip, detected) ==
  /\ Step
  /\ pending = <<>>
  /\ LET r == create(rule.options, lintId, filename)
         d == detect(frameworkDetectionCache, detected, filename)
     IN /\ globalTracker' = RouteTracker_reset(globalTracker, lintId)
        /\ registered' = IF globalTracker.currentLintId # lintId THEN <<>> ELSE registered
        /\ calls' = IF globalTracker.currentLintId # lintId THEN <<>> ELSE calls
        /\ globalRouterTracker' =
             [resetFile(globalRouterTracker, filename) EXCEPT !.maxDepth = r.maxRouterDepth]
        /\ IF skip
           THEN /\ rule' = [r EXCEPT !.shouldSkipFile = TRUE]
                /\ UNCHANGED frameworkDetectionCache
           ELSE /\ rule' = [r EXCEPT !.frameworkContext = d.value]
                /\ frameworkDetectionCache' = d.cache
  /\ ret' = [op |-> "Program", file |-> filename]
  /\ UNCHANGED <<pathNormalizationCache, reports, pending, attempts, touches>>

\* processRouterCreation
VariableDeclarator(node) ==
  /\ Step
  /\ rule.created
  /\ pending # <<>> => node = Head(pending)
  /\ pending' = IF pending # <<>> THEN Tail(pending) ELSE pending
  /\ IF rule.shouldSkipFile \/ rule.frameworkContext = Null
     THEN /\ UNCHANGED <<globalRouterTracker, attempts>>
          /\ ret' = [op |-> "VariableDeclarator", result |-> FALSE]
     ELSE LET framework == IF rule.frameworkContext[1] = "nestjs" THEN "generic"
                           ELSE rule.frameworkContext[1]
              r == detectRouterCreation(globalRouterTracker, node, framework)
          IN /\ globalRouterTracker' = r.tracker
             /\ attempts' = IF r.result THEN Append(attempts, <<>>) ELSE attempts
             /\ ret' = [op |-> "VariableDeclarator", result |-> r.result]
  /\ UNCHANGED <<globalTracker, registered, calls, pathNormalizationCache,
                 frameworkDetectionCache, rule, reports, touches>>

\* markExported for each declarator of the exported declaration, in order
RECURSIVE markAllExported(_, _)
markAllExported(rt, declarations) ==
  IF declarations = <<>> THEN rt
  ELSE markAllExported(
         IF Head(declarations).id.type = "Identifier"
         THEN markExported(rt, Head(declarations).id.name) ELSE rt,
         Tail(declarations))

\* processExportDeclaration; the declarators are the node's children, visited next
ExportNamedDeclaration(node) ==
  /\ Step
  /\ rule.created
  /\ pending = <<>>
  /\ IF rule.shouldSkipFile \/ node.declaration.type # "VariableDeclaration"
     THEN UNCHANGED globalRouterTracker
     ELSE globalRouterTracker' =
            markAllExported(globalRouterTracker, node.declaration.declarations)
  /\ pending' = IF node.declaration.type = "VariableDeclaration"
                THEN node.declaration.declarations ELSE <<>>
  /\ ret' = [op |-> "ExportNamedDeclaration"]
  /\ UNCHANGED <<globalTracker, registered, calls, pathNormalizationCache,
                 frameworkDetectionCache, rule, reports, attempts, touches>>

\* processImportDeclaration, for a declaration with one import specifier
ImportDeclaration(node) ==
  /\ Step
  /\ rule.created
  /\ pending = <<>>
  /\ IF rule.shouldSkipFile \/ node.source.type # "Literal"
        \/ node.specifier.type # "ImportSpecifier"
     THEN UNCHANGED globalRouterTracker
     ELSE globalRouterTracker' =
            registerImport(globalRouterTracker, node.specifier.imported,
                           node.specifier.local, node.source.value)
  /\ ret' = [op |-> "ImportDeclaration"]
  /\ UNCHANGED <<globalTracker, registered, calls, pathNormalizationCache,
                 frameworkDetectionCache, rule, reports, pending, attempts, touches>>

\* processPrefixApplication: the router tracker afterwards
processPrefixApplication(rt, node) ==
  LET prefixInfo == detectPrefixApplication(node)
  IN IF prefixInfo.isNull THEN rt
     ELSE IF prefixInfo.isDynamic THEN rt
     ELSE IF prefixInfo.targetRouter # "null"
             /\ prefixInfo.prefix # Null /\ prefixInfo.prefix # <<>>
     THEN applyPrefix(rt, prefixInfo.targetRouter, prefixInfo.prefix).tracker
     ELSE rt

\* history kept beside processPrefixApplication
prefixAttemptsAfter(rt, att, node) ==
  LET prefixInfo == detectPrefixApplication(node)
  IN IF ~prefixInfo.isNull /\ ~prefixInfo.isDynamic /\ prefixInfo.targetRouter # "null"
        /\ prefixInfo.prefix # Null
     THEN attemptsAfter(rt, att, prefixInfo.targetRouter, prefixInfo.prefix)
     ELSE att

\* the effective path of a route call (lines 348-358)
effectivePathOf(rt, callee, path) ==
  LET routerIdentifier == getRouterIdentifier(callee)
      routerPrefix == IF routerIdentifier # "null"
                      THEN getEffectivePrefix(rt, routerIdentifier) ELSE Null
  IN IF routerPrefix # Null /\ routerPrefix # <<>>
     THEN joinPaths(<<routerPrefix, path>>)
     ELSE path

\* the path the conflict detector is given for the stored route (line 384)
storedPathForConflict(existingRoute) == existingRoute.path

\* the RouteRegistration built for a route call (lines 366-375)
routeRegistration(r, node, method, normalizedPath) ==
  [method |-> method, path |-> normalizedPath, file |-> r.filename,
   line |-> node.loc.line, column |-> node.loc.column,
   framework |-> IF r.frameworkContext = Null THEN "undefined"
                 ELSE r.frameworkContext[1]]

\* the context.report calls made for a found route and its conflict (lines 391-415)
reportConflict(r, node, method, effectivePath, existingRoute, conflictType) ==
  LET data == [method |-> method, path |-> effectivePath,
               firstLocation |-> [file |-> existingRoute.file,
                                  line |-> existingRoute.line,
                                  column |-> existingRoute.column],
               conflictType |-> conflictType,
               line |-> node.loc.line, file |-> r.filename]
  IN IF conflictType \in {"exact", "param-name"}
     THEN <<[messageId |-> IF r.options.severity = "warn"
                           THEN "conflictingRoute" ELSE "duplicateRoute",
             data |-> data]>>
     ELSE IF r.warnOnConflicts /\ conflictType # "none"
     THEN <<[messageId |-> "conflictingRoute", data |-> data]>>
     ELSE <<>>

\* lines 381-416: reg is what globalTracker.register returned and left
routeCallRegistered(r, c, node, effectivePath, route, reg, conflict) ==
  IF reg.result = NullObject
  THEN [isRoute |-> TRUE, route |-> route, effectivePath |-> effectivePath,
        existingRoute |-> NullObject, conflict |-> "not-computed",
        tracker |-> reg.tracker, cache |-> c, report |-> <<>>]
  ELSE [isRoute |-> TRUE, route |-> route, effectivePath |-> effectivePath,
        existingRoute |-> reg.result, conflict |-> conflict.type,
        tracker |-> reg.tracker, cache |-> conflict.cache,
        report |-> reportConflict(r, node, route.method, effectivePath, reg.result,
                                  conflict.type)]

\* lines 379-384: register, then detectPathConflict when a route was found
routeCallRegister(r, t, c, node, effectivePath, route, reg) ==
  routeCallRegistered(r, c, node, effectivePath, route, reg,
    IF reg.result = NullObject THEN [type |-> "not-computed", cache |-> c]
    ELSE detectPathConflict(c, effectivePath, storedPathForConflict(reg.result),
                            r.normalizationLevel))

\* lines 360-379: n is what normalizePathWithLevel returned and left
routeCallNormalized(r, t, node, method, effectivePath, n) ==
  routeCallRegister(r, t, n.cache, node, effectivePath,
    routeRegistration(r, node, method, n.value),
    RouteTracker_register(t, routeRegistration(r, node, method, n.value)))

\* lines 348-364
routeCallOnPath(r, t, c, node, method, effectivePath) ==
  routeCallNormalized(r, t, node, method, effectivePath,
    normalizePathWithLevel(c, effectivePath, r.normalizationLevel,
                           r.options.preserveConstraints))

\* processRouteCall: what was registered, found and reported, and the new state
\* of the ledger and the normalization cache
processRouteCall(r, t, rt, c, node) ==
  LET skipped == [isRoute |-> FALSE, tracker |-> t, cache |-> c, report |-> <<>>]
      method == IF node.callee.type = "MemberExpression"
                THEN extractMethodName(node.callee) ELSE Null
      path == IF Len(node.arguments) > 0 THEN extractLiteralPath(node.arguments[1])
              ELSE Null
  IN IF node.callee.type # "MemberExpression" THEN skipped
     ELSE IF method = Null THEN skipped
     ELSE IF method \in r.options.ignoreMethods THEN skipped
     ELSE IF Len(node.arguments) = 0 THEN skipped
     ELSE IF path = Null \/ path = <<>> THEN skipped
     ELSE IF ~isValidPath(path) THEN skipped
     ELSE routeCallOnPath(r, t, c, node, method, effectivePathOf(rt, node.callee, path))

\* history: the object a route call was made on, the binding object that name
\* referred to at the call (0 when it had none) and the path text as written
routeCallOrigin(rt, node) ==
  LET object == getRouterIdentifier(node.callee)
  IN [object |-> object, rawPath |-> node.arguments[1].value,
      binding |-> IF MapHas(rt.bindings, object) THEN MapGet(rt.bindings, object) ELSE 0]

\* history: how the first argument of a call was written
firstArgumentKind(node) ==
  IF Len(node.arguments) = 0 THEN "none"
  ELSE IF node.arguments[1].type = "TemplateLiteral"
          /\ node.arguments[1].expressions > 0
  THEN "TemplateWithExpressions"
  ELSE node.arguments[1].type

\* the state a handled call expression leaves: rt is the router tracker after
\* processPrefixApplication, out the outcome of processRouteCall
callExpressionHandled(node, rt, out) ==
  /\ globalRouterTracker' = rt
  /\ attempts' = prefixAttemptsAfter(globalRouterTracker, attempts, node)
  /\ globalTracker' = out.tracker
  /\ registered' = IF out.isRoute THEN Append(registered, out.route) ELSE registered
  /\ calls' = IF out.isRoute THEN Append(calls, routeCallOrigin(rt, node)) ELSE calls
  /\ pathNormalizationCache' = out.cache
  /\ reports' = reports \o out.report
  /\ ret' = IF out.isRoute
            THEN [op |-> "CallExpression", isRoute |-> TRUE,
                  rawPath |-> node.arguments[1].value,
                  object |-> getRouterIdentifier(node.callee),
                  route |-> out.route, effectivePath |-> out.effectivePath,
                  existingRoute |-> out.existingRoute,
                  conflict |-> out.conflict, reported |-> out.report # <<>>]
            ELSE [op |-> "CallExpression", isRoute |-> FALSE,
                  firstArgument |-> firstArgumentKind(node)]

\* processRouteCall on the router tracker that processPrefixApplication left
callExpressionAfterPrefix(node, rt) ==
  callExpressionHandled(node, rt,
    processRouteCall(rule, globalTracker, rt, pathNormalizationCache, node))

\* CallExpression visitor: processPrefixApplication, then processRouteCall
CallExpression(node) ==
  /\ Step
  /\ rule.created
  /\ pending = <<>>
  /\ IF rule.shouldSkipFile
     THEN /\ UNCHANGED <<globalTracker, registered, calls, globalRouterTracker, attempts,
                         pathNormalizationCache, reports>>
          /\ ret' = [op |-> "CallExpression", isRoute |-> FALSE,
                     firstArgument |-> firstArgumentKind(node)]
     ELSE callExpressionAfterPrefix(node,
            processPrefixApplication(globalRouterTracker, node))
  /\ UNCHANGED <<frameworkDetectionCache, rule, pending, touches>>

(***************************************************************************)
(* Inputs of the rule: configurations and the nodes of the linted files    *)
(***************************************************************************)
\* each node of a run has its own source line
Location == [line |-> MaxRuleEvents + 1 - steps, column |-> 0]

Identifier(name) == [type |-> "Identifier", name |-> name]
Literal(value) == [type |-> "Literal", value |-> value]

\* `<object>.<method>('<path>', handler)`
RouteCall(object, method, path) ==
  [type |-> "CallExpression",
   callee |-> [type |-> "MemberExpression", object |-> Identifier(object),
               property |-> Identifier(method)],
   arguments |-> <<Literal(path), Identifier("handler")>>,
   loc |-> Location]

\* `<object>.use(<prefixArg>, <router>)`
MountCall(object, prefixArg, router) ==
  [type |-> "CallExpression",
   callee |-> [type |-> "MemberExpression", object |-> Identifier(object),
               property |-> Identifier("use")],
   arguments |-> <<prefixArg, Identifier(router)>>,
   loc |-> Location]

\* `export const <name> = express.Router()`
ExportedRouterDeclaration(name) ==
  [type |-> "ExportNamedDeclaration",
   declaration |-> [type |-> "VariableDeclaration",
                    declarations |-> <<MemberRouterDeclarator(name)>>]]

\* `import { <imported> as <local> } from '<from>'`
ImportNode(imported, local, from) ==
  [type |-> "ImportDeclaration", source |-> Literal(from),
   specifier |-> [type |-> "ImportSpecifier", imported |-> imported, local |-> local]]

ExpressFromImports == <<"express", "imports">>

RuleOptions(level, maxRouterDepth) ==
  [level |-> level, warnOnStaticVsDynamic |-> TRUE, preserveConstraints |-> FALSE,
   maxRouterDepth |-> maxRouterDepth, ignoreMethods |-> {}, severity |-> "error"]

InitRule(optionsSet, events) ==
  /\ InitCommon
  /\ steps = events
  /\ globalRouterTracker = newRouterTracker(DefaultMaxDepth)
  /\ \E options \in optionsSet : rule = [created |-> FALSE, options |-> options]

(***************************************************************************)
(* The rule linting files that register routes on the application          *)
(***************************************************************************)
P_u_bare == <<"u">>
P_u_i == <<"/", "u", "/", ":", "i">>
P_u_j == <<"/", "u", "/", ":", "j">>
RoutePaths == {P_u, P_u_bare, P_u_i, P_u_j}

InitRoutes ==
  InitRule({RuleOptions(level, 0) : level \in {0, 1, 2}}, MaxRouteEvents)

NextRoutes ==
  \/ \E filename \in Files, lintId \in LintIds, skip \in BOOLEAN :
       Program(filename, lintId, skip, ExpressFromImports)
  \/ \E path \in RoutePaths : CallExpression(RouteCall("app", "get", path))
  \/ CallExpression(RouteCall("app", "post", P_u))

SpecRoutes == InitRoutes /\ [][NextRoutes]_vars

(***************************************************************************)
(* The rule linting one file under every pathNormalization configuration   *)
(***************************************************************************)
P_u_x == <<"/", "u", "/", "x">>
P_u_ia == <<"/", "u", "/", ":", "i", "(", "a", ")">>
P_u_ib == <<"/", "u", "/", ":", "i", "(", "b", ")">>
P_u_star == <<"/", "u", "/", "*">>
P_u_rest == <<"u", "/", ":", "x", "*">>
OptionPaths == {P_u_x, P_u_i, P_u_ia, P_u_ib, P_u_star, P_u_rest}

PathNormalizationOptions ==
  {[RuleOptions(level, 0) EXCEPT !.warnOnStaticVsDynamic = warn,
                                 !.preserveConstraints = preserve] :
     level \in {0, 1, 2}, warn \in BOOLEAN, preserve \in BOOLEAN}

InitOptions == InitRule(PathNormalizationOptions, MaxRouteEvents)

\* globalTracker.clear() is what the test suites call between rule runs
NextOptions ==
  \/ \E lintId \in LintIds : Program("a.js", lintId, FALSE, ExpressFromImports)
  \/ \E path \in OptionPaths : CallExpression(RouteCall("app", "get", path))
  \/ LedgerClear

SpecOptions == InitOptions /\ [][NextOptions]_vars

\* the same configurations on routes whose last segment is a static, a plain
\* parameter or a constrained parameter
NextConstraints ==
  \/ \E lintId \in LintIds : Program("a.js", lintId, FALSE, ExpressFromImports)
  \/ \E path \in {P_u_x, P_u_i, P_u_ia, P_u_ib} :
       CallExpression(RouteCall("app", "get", path))

SpecConstraints == InitOptions /\ [][NextConstraints]_vars

(***************************************************************************)
(* The rule linting files that create, mount and export routers            *)
(***************************************************************************)
P_au == <<"/", "a", "/", "u">>
P_avu == <<"/", "a", "/", "v", "/", "u">>
P_slash_v == <<"/", "v">>

InitRule1 ==
  InitRule({RuleOptions(1, maxRouterDepth) : maxRouterDepth \in 1..MaxConfiguredDepth},
           MaxRuleEvents)

NextRule ==
  \/ \E filename \in Files, lintId \in LintIds :
       Program(filename, lintId, FALSE, ExpressFromImports)
  \/ \E node \in {MemberRouterDeclarator("r"), BareRouterDeclarator("s")} :
       VariableDeclarator(node)
  \/ ExportNamedDeclaration(ExportedRouterDeclaration("r"))
  \/ ImportDeclaration(ImportNode("r", "r", <<".", "/", "a">>))
  \/ \E node \in {MountCall("app", Literal(P_a), "r"), MountCall("r", Literal(P_slash_v), "s")} :
       CallExpression(node)
  \/ \E node \in {RouteCall("r", "get", P_u), RouteCall("s", "get", P_u),
                  RouteCall("app", "get", P_au), RouteCall("app", "get", P_avu)} :
       CallExpression(node)

SpecRule == InitRule1 /\ [][NextRule]_vars

(***************************************************************************)
(* The rule linting one file whose router is mounted under literal and     *)
(* under dynamic prefixes                                                  *)
(***************************************************************************)
\* `${base}` after the text <value>: a template literal with one substitution
TemplateWithExpression(value) ==
  [type |-> "TemplateLiteral", expressions |-> 1, value |-> value]

PrefixArguments ==
  {Literal(P_a), Literal(P_slash_v), Identifier("prefix"), TemplateWithExpression(P_a)}

\* a file start, a declaration, two mounts and a route fit in one behaviour
InitMounts ==
  InitRule({RuleOptions(1, maxRouterDepth) : maxRouterDepth \in 1..MaxConfiguredDepth},
           MaxRouteEvents + 1)

NextMounts ==
  \/ \E lintId \in LintIds : Program("a.js", lintId, FALSE, ExpressFromImports)
  \/ VariableDeclarator(MemberRouterDeclarator("r"))
  \/ ExportNamedDeclaration(ExportedRouterDeclaration("r"))
  \/ \E prefixArg \in PrefixArguments : CallExpression(MountCall("app", prefixArg, "r"))
  \/ CallExpression(RouteCall("r", "get", P_u))

SpecMounts == InitMounts /\ [][NextMounts]_vars

(***************************************************************************)
(* normalizePathWithLevel called on a path and then on its own result,     *)
(* with the same level and preserveConstraints.  A path is written from a  *)
(* sequence of segments, with or without a leading and a trailing slash.   *)
(***************************************************************************)
MaxSegments == 2

Segments ==
  { <<"u">>, <<":", "i">>, <<":", "i", "?">>, <<":", "x", "*">>, <<"*">>,
    <<"*", "*">>, <<":", "i", "(", "a", ")">>, <<":", "a", "-", ":", "b">>,
    <<":">> }

SegmentLists == UNION {[1..n -> Segments] : n \in 0..MaxSegments}

PathOf(segments, leading, trailing) ==
  (IF leading THEN <<"/">> ELSE <<>>) \o Join(segments, <<"/">>)
    \o (IF trailing THEN <<"/">> ELSE <<>>)

NormalizeFrame ==
  UNCHANGED <<globalTracker, globalRouterTracker, frameworkDetectionCache, rule,
              reports, pending, registered, calls, attempts, touches, steps>>

\* the state after a call that returned out
Normalized(op, path, level, preserveConstraints, out) ==
  /\ pathNormalizationCache' = out.cache
  /\ ret' = [op |-> op, path |-> path, level |-> level,
             preserveConstraints |-> preserveConstraints, result |-> out.value]
  /\ NormalizeFrame

Normalize(path, level, preserveConstraints) ==
  /\ ret.op = "init"
  /\ Normalized("normalize", path, level, preserveConstraints,
                normalizePathWithLevel(pathNormalizationCache, path, level,
                                       preserveConstraints))

Renormalize ==
  /\ ret.op = "normalize"
  /\ Normalized("renormalize", ret.result, ret.level, ret.preserveConstraints,
                normalizePathWithLevel(pathNormalizationCache, ret.result,
                                       ret.level, ret.preserveConstraints))

InitNormalize ==
  /\ InitCommon
  /\ globalRouterTracker = newRouterTracker(DefaultMaxDepth)
  /\ rule = NoRule
  /\ steps = 0

NextNormalize ==
  \/ /\ ret.op = "init"
     /\ \E segments \in SegmentLists, leading \in BOOLEAN, trailing \in BOOLEAN,
           level \in {0, 1, 2}, preserveConstraints \in BOOLEAN :
          Normalize(PathOf(segments, leading, trailing), level,
                    preserveConstraints)
  \/ Renormalize

SpecNormalize == InitNormalize /\ [][NextNormalize]_vars

(***************************************************************************)
(* normalizePathWithLevel called again and again on a normalization cache  *)
(* of a small capacity, so that entries are evicted and computed anew      *)
(***************************************************************************)
CachedPaths ==
  { <<"/", "u", "/", ":", "i">>, <<"u", "/", ":", "i", "(", "a", ")">>,
    <<"/", "u", ":", "1", ":", "f", "a", "l", "s", "e">> }

NormalizeCached(path, level, preserveConstraints) ==
  /\ Step
  /\ LET out == normalizePathWithLevel(pathNormalizationCache, path, level,
                                        preserveConstraints)
     IN /\ pathNormalizationCache' = out.cache
        /\ ret' = [op |-> "normalize", path |-> path, level |-> level,
                   preserveConstraints |-> preserveConstraints,
                   result |-> out.value]
  /\ UNCHANGED <<globalTracker, globalRouterTracker, frameworkDetectionCache, rule,
                 reports, pending, registered, calls, attempts, touches>>

InitNormalizeCache ==
  /\ globalTracker = newRouteTracker
  /\ globalRouterTracker = newRouterTracker(DefaultMaxDepth)
  /\ frameworkDetectionCache = newCache(FrameworkCacheSize)
  /\ rule = NoRule
  /\ reports = <<>>
  /\ pending = <<>>
  /\ ret = [op |-> "init"]
  /\ registered = <<>>
  /\ calls = <<>>
  /\ attempts = <<>>
  /\ touches = <<>>
  /\ \E maxSize \in 1..MaxCapacity :
       /\ pathNormalizationCache = newCache(maxSize)
       /\ steps = maxSize + 2

NextNormalizeCache ==
  \E path \in CachedPaths, level \in {0, 1, 2}, preserveConstraints \in BOOLEAN :
    NormalizeCached(path, level, preserveConstraints)

SpecNormalizeCache == InitNormalizeCache /\ [][NextNormalizeCache]_vars

(***************************************************************************)
(* detectPathConflict called on two paths written from segment lists       *)
(***************************************************************************)
DetectSegments ==
  { <<"u">>, <<"v">>, <<":", "i">>, <<"*">>, <<":", "i", "(", "a", ")">>,
    <<":", "i", "(", "b", ")">>, <<":", "i", "(", "[", ")">> }

DetectPaths ==
  {PathOf(segments, TRUE, FALSE) :
     segments \in UNION {[1..n -> DetectSegments] : n \in 0..MaxSegments}}

\* the state after a call that returned out
Detected(path1, path2, level, out) ==
  /\ pathNormalizationCache' = out.cache
  /\ ret' = [op |-> "detect", path1 |-> path1, path2 |-> path2, level |-> level,
             type |-> out.type]
  /\ NormalizeFrame

DetectPathConflict(path1, path2, level) ==
  /\ ret.op = "init"
  /\ Detected(path1, path2, level,
              detectPathConflict(pathNormalizationCache, path1, path2, level))

NextDetect ==
  /\ ret.op = "init"
  /\ \E path1 \in DetectPaths, path2 \in DetectPaths, level \in {0, 1, 2} :
       DetectPathConflict(path1, path2, level)

SpecDetect == InitNormalize /\ [][NextDetect]_vars

(***************************************************************************)
(* joinPaths called on a sequence of fragments                             *)
(***************************************************************************)
MaxFragments == 3

Fragments ==
  { <<>>, <<"/">>, <<"a">>, <<"/", "a">>, <<"b", "/">>,
    <<"/", "/", "a", "/", "/">>, <<"a", "/", "/", "b">>,
    <<"/", "a", "/", "b", "/">> }

FragmentLists == UNION {[1..n -> Fragments] : n \in 0..MaxFragments}

JoinPaths(parts) ==
  /\ ret.op = "init"
  /\ ret' = [op |-> "join", parts |-> parts, result |-> joinPaths(parts)]
  /\ UNCHANGED <<globalTracker, globalRouterTracker, pathNormalizationCache,
                 frameworkDetectionCache, rule, reports, pending, registered,
                 calls, attempts, touches, steps>>

InitJoin == InitNormalize

NextJoin == \E parts \in FragmentLists : JoinPaths(parts)

SpecJoin == InitJoin /\ [][NextJoin]_vars

(***************************************************************************)
(* Properties of the ledger (SpecLedger)                                   *)
(***************************************************************************)
\* the first register call of the history made under the given key
FirstRegistered(history, key) ==
  history[Min({i \in 1..Len(history) : routeKey(history[i]) = key})]

RegisteredKeys(history) == {routeKey(history[i]) : i \in 1..Len(history)}

\* C1: over register calls with no clear or run-id change in between, register
\* returns null exactly when no record is held under the route's METHOD:path key
\* and otherwise returns the record registered first under that key; the
\* snapshot holds exactly one record per key that was registered, the earliest.
C1_RegisterKeepsFirst ==
  LET snapshot == getRoutes(globalTracker)
      prior == SubSeq(registered, 1, Len(registered) - 1)
  IN /\ \A i, j \in 1..Len(snapshot) :
          routeKey(snapshot[i]) = routeKey(snapshot[j]) => i = j
     /\ RegisteredKeys(snapshot) = RegisteredKeys(registered)
     /\ \A i \in 1..Len(snapshot) :
          snapshot[i] = FirstRegistered(registered, routeKey(snapshot[i]))
     /\ ret.op = "register" =>
          IF routeKey(ret.route) \in RegisteredKeys(prior)
          THEN ret.result = FirstRegistered(prior, routeKey(ret.route))
          ELSE ret.result = NullObject

\* a register call found a record that another file had registered first
C1_Witness ==
  /\ ret.op = "register"
  /\ ret.result # NullObject
  /\ ret.result.file # ret.route.file
  /\ Len(globalTracker.routes) = 2

\* C4: reset(id) empties the ledger when id differs from the held run id and
\* leaves every record in place when it is the held id; afterwards the held id
\* is id; registrations in between only add records.
C4_ResetClearsOnNewIdOnly ==
  [][/\ ret'.op = "reset" =>
          /\ globalTracker'.currentLintId = ret'.lintId
          /\ ret'.lintId # globalTracker.currentLintId => globalTracker'.routes = <<>>
          /\ ret'.lintId = globalTracker.currentLintId =>
                globalTracker'.routes = globalTracker.routes
     /\ ret'.op = "register" =>
          /\ globalTracker'.currentLintId = globalTracker.currentLintId
          /\ Len(globalTracker'.routes) >= Len(globalTracker.routes)
          /\ SubSeq(globalTracker'.routes, 1, Len(globalTracker.routes))
               = globalTracker.routes]_vars

\* a reset with the held id after registrations: the records are still there
C4_Witness ==
  /\ ret.op = "reset"
  /\ ret.lintId = globalTracker.currentLintId
  /\ Len(globalTracker.routes) = 2
  /\ Len(registered) = 3

(***************************************************************************)
(* Properties of the router tracker (SpecRouter)                           *)
(***************************************************************************)
Take(s, n) == SubSeq(s, 1, Min({Len(s), n}))

\* the binding object an identifier is bound to in the current file
BindingOf(identifier) == MapGet(globalRouterTracker.bindings, identifier)

\* C5: of the applyPrefix calls with a non-root prefix made on a binding, the
\* first maxDepth succeed and append their prefix in call order; every later
\* one returns false and leaves prefixes and depth alone.
C5_DepthCeiling ==
  LET rt == globalRouterTracker
  IN /\ \A a \in 1..Len(rt.heap) :
          /\ rt.heap[a].prefixes = Take(attempts[a], rt.maxDepth)
          /\ rt.heap[a].depth = Len(rt.heap[a].prefixes)
     /\ (/\ ret.op = "applyPrefix"
         /\ MapHas(rt.bindings, ret.identifier)
         /\ ~isRootPath(ret.prefix))
        => ret.result = (Len(attempts[BindingOf(ret.identifier)]) <= rt.maxDepth)

\* a call beyond the ceiling failed and the binding holds maxDepth prefixes
C5_Witness ==
  LET rt == globalRouterTracker
  IN /\ ret.op = "applyPrefix"
     /\ ret.result = FALSE
     /\ MapHas(rt.bindings, ret.identifier)
     /\ Len(attempts[BindingOf(ret.identifier)]) > rt.maxDepth
     /\ rt.heap[BindingOf(ret.identifier)].depth = rt.maxDepth

\* C6: for a locally bound router, getEffectivePrefix returns the path-join of
\* the non-root prefixes applied to it (1 to maxDepth of them) in application
\* order, and null when none was applied.
C6_EffectivePrefixIsJoin ==
  LET rt == globalRouterTracker
  IN (ret.op = "getEffectivePrefix" /\ MapHas(rt.bindings, ret.identifier)) =>
       LET applied == attempts[BindingOf(ret.identifier)]
       IN /\ applied = <<>> => ret.result = Null
          /\ (1 <= Len(applied) /\ Len(applied) <= rt.maxDepth) =>
               ret.result = joinPaths(applied)

\* '/a' then 'v/' were applied to a bound router and the answer was '/a/v'
C6_Witness ==
  /\ ret.op = "getEffectivePrefix"
  /\ MapHas(globalRouterTracker.bindings, ret.identifier)
  /\ attempts[BindingOf(ret.identifier)] = <<P_a, P_v>>
  /\ ret.result = <<"/", "a", "/", "v">>

\* C9: when a name has no binding in the current file and one router was
\* exported under it from another file, getEffectivePrefix returns the join of
\* the prefixes that router accumulated in the exporting file.
C9_ExportedPrefixSurvivesResetFile ==
  LET rt == globalRouterTracker
  IN (/\ ret.op = "getEffectivePrefix"
      /\ ~MapHas(rt.bindings, ret.identifier)
      /\ MapHas(rt.exports, ret.identifier)
      /\ Len(MapGet(rt.exports, ret.identifier)) = 1
      /\ MapGet(rt.exports, ret.identifier)[1].file # rt.currentFile)
     => ret.result =
          joinPaths(Take(attempts[MapGet(rt.exports, ret.identifier)[1].binding],
                         rt.maxDepth))

\* a.js exported a router with the prefix 'v/'; b.js resolved the name to '/v'
C9_Witness ==
  LET rt == globalRouterTracker
  IN /\ ret.op = "getEffectivePrefix"
     /\ ~MapHas(rt.bindings, ret.identifier)
     /\ MapHas(rt.exports, ret.identifier)
     /\ Len(MapGet(rt.exports, ret.identifier)) = 1
     /\ MapGet(rt.exports, ret.identifier)[1].file = "a.js"
     /\ rt.currentFile = "b.js"
     /\ attempts[MapGet(rt.exports, ret.identifier)[1].binding] = <<P_v>>
     /\ ret.result = <<"/", "v">>

\* C11: applyPrefix with a non-root prefix on a name that has no binding in the
\* current file but one router exported under it from another file, still below
\* the depth ceiling, returns true and appends the prefix to that router.
C11_MountReachesExportedRouter ==
  LET rt == globalRouterTracker
  IN (/\ ret.op = "applyPrefix"
      /\ ~isRootPath(ret.prefix)
      /\ ~MapHas(rt.bindings, ret.identifier)
      /\ MapHas(rt.exports, ret.identifier)
      /\ Len(MapGet(rt.exports, ret.identifier)) = 1
      /\ MapGet(rt.exports, ret.identifier)[1].file # rt.currentFile
      /\ Len(attempts[MapGet(rt.exports, ret.identifier)[1].binding]) < rt.maxDepth)
     => LET prefixes == rt.heap[MapGet(rt.exports, ret.identifier)[1].binding].prefixes
        IN /\ ret.result = TRUE
           /\ prefixes # <<>>
           /\ prefixes[Len(prefixes)] = ret.prefix

\* C12: a Program event that starts a new run (the ledger takes a new run id)
\* leaves the router tracker without export entries and import records.
C12_NewRunResetsRouterTracker ==
  [][(/\ ret'.op = "Program"
      /\ globalTracker'.currentLintId # globalTracker.currentLintId)
     => /\ globalRouterTracker'.exports = <<>>
        /\ globalRouterTracker'.imports = <<>>]_vars

\* C24: applyPrefix on an identifier without a binding in the current file
\* returns false, and applyPrefix with the prefix '' or '/' on a bound
\* identifier returns true, at any depth; both leave the tracker as it was.
C24_ApplyPrefixNoOps ==
  [][ret'.op = "applyPrefix" =>
       /\ ~MapHas(globalRouterTracker.bindings, ret'.identifier) =>
            /\ ret'.result = FALSE
            /\ globalRouterTracker' = globalRouterTracker
       /\ (/\ MapHas(globalRouterTracker.bindings, ret'.identifier)
           /\ ret'.prefix \in {P_empty, P_root}) =>
            /\ ret'.result = TRUE
            /\ globalRouterTracker' = globalRouterTracker]_vars

\* applyPrefix('r', '') returned true on a binding that is at maxDepth
C24_Witness ==
  /\ ret.op = "applyPrefix"
  /\ ret.identifier = "r"
  /\ ret.prefix = P_empty
  /\ ret.result = TRUE
  /\ MapHas(globalRouterTracker.bindings, "r")
  /\ globalRouterTracker.heap[BindingOf("r")].depth = globalRouterTracker.maxDepth

(***************************************************************************)
(* Properties of cross-file resolution (SpecExports)                       *)
(***************************************************************************)
\* the export entries a tracker holds under a name, in the order they were made
ExportEntriesOf(rt, identifier) ==
  IF MapHas(rt.exports, identifier) THEN MapGet(rt.exports, identifier) ELSE <<>>

ExportEntries(identifier) == ExportEntriesOf(globalRouterTracker, identifier)

\* the binding objects the tracker can still reach: those of the bindings Map
\* and those its export entries refer to
ReachableBindings ==
  LET rt == globalRouterTracker
  IN {rt.bindings[i].value : i \in 1..Len(rt.bindings)}
     \cup UNION {{rt.exports[i].value[j].binding : j \in 1..Len(rt.exports[i].value)} :
                 i \in 1..Len(rt.exports)}

\* C36: every binding reachable from the bindings Map or the export table has
\* a depth equal to the number of its stored prefixes, between 0 and maxDepth,
\* and stores neither '' nor '/' as a prefix.
C36_DepthCountsStoredPrefixes ==
  \A a \in ReachableBindings :
    LET binding == globalRouterTracker.heap[a]
    IN /\ binding.depth = Len(binding.prefixes)
       /\ 0 <= binding.depth
       /\ binding.depth <= globalRouterTracker.maxDepth
       /\ \A k \in 1..Len(binding.prefixes) : ~isRootPath(binding.prefixes[k])

\* applyPrefix filled a binding that is both bound and exported up to
\* maxDepth = 2
C36_Witness ==
  /\ ret.op = "applyPrefix"
  /\ ret.result = TRUE
  /\ globalRouterTracker.maxDepth = 2
  /\ ret.prefix = P_v
  /\ MapHas(globalRouterTracker.bindings, "r")
  /\ ExportEntries("r") # <<>>
  /\ ExportEntries("r")[1].binding = BindingOf("r")
  /\ globalRouterTracker.heap[BindingOf("r")].prefixes = <<P_a, P_v>>
  /\ globalRouterTracker.heap[BindingOf("r")].depth = 2

\* C26: a name without a binding in the current file is resolved through the
\* entry that was exported first under that name, however many entries
\* follow; a name without export entries is unresolved.
C26_FirstExportResolves ==
  (/\ ret.op = "getEffectivePrefix"
   /\ ~MapHas(globalRouterTracker.bindings, ret.identifier))
  => IF ExportEntries(ret.identifier) = <<>> THEN ret.result = Null
     ELSE ret.result =
            joinPaths(globalRouterTracker.heap[
                        ExportEntries(ret.identifier)[1].binding].prefixes)

\* r was exported twice, first with the prefix list <</a>> and then, created
\* anew, with none; from b.js it resolves to "/a"
C26_Witness ==
  /\ ret.op = "getEffectivePrefix"
  /\ ret.identifier = "r"
  /\ ~MapHas(globalRouterTracker.bindings, "r")
  /\ Len(ExportEntries("r")) = 2
  /\ globalRouterTracker.heap[ExportEntries("r")[1].binding].prefixes = <<P_a>>
  /\ globalRouterTracker.heap[ExportEntries("r")[2].binding].prefixes = <<>>
  /\ ret.result = <<"/", "a">>

(***************************************************************************)
(* Properties of the export table and the import records (SpecRouter)      *)
(***************************************************************************)
\* C27: every operation but the full reset keeps the export entries of every
\* name, in their order, and at most appends to them; the full reset empties
\* bindings, export table and import records; the per-file reset empties the
\* bindings and nothing else.
C27_ExportsAppendOnly ==
  [][
      /\ ret'.op # "fullReset" =>
          \A i \in 1..Len(globalRouterTracker.exports) :
            /\ i <= Len(globalRouterTracker'.exports)
            /\ globalRouterTracker'.exports[i].key = globalRouterTracker.exports[i].key
            /\ Take(globalRouterTracker'.exports[i].value,
                    Len(globalRouterTracker.exports[i].value))
                 = globalRouterTracker.exports[i].value
      /\ ret'.op = "fullReset" =>
          /\ globalRouterTracker'.exports = <<>>
          /\ globalRouterTracker'.bindings = <<>>
          /\ globalRouterTracker'.imports = <<>>
      /\ ret'.op = "resetFile" =>
          /\ globalRouterTracker'.bindings = <<>>
          /\ globalRouterTracker'.exports = globalRouterTracker.exports
          /\ globalRouterTracker'.imports = globalRouterTracker.imports
          /\ globalRouterTracker'.heap = globalRouterTracker.heap]_vars

\* a per-file reset came after r had been created and exported twice and an
\* import had been recorded
C27_Witness ==
  /\ ret.op = "resetFile"
  /\ Len(ExportEntries("r")) = 2
  /\ globalRouterTracker.imports # <<>>
  /\ globalRouterTracker.bindings = <<>>

\* the binding objects the export entries of a tracker refer to
ExportedBindings(rt) ==
  UNION {{rt.exports[i].value[j].binding : j \in 1..Len(rt.exports[i].value)} :
           i \in 1..Len(rt.exports)}

\* the binding objects the bindings Map of a tracker holds
BoundBindings(rt) == {rt.bindings[i].value : i \in 1..Len(rt.bindings)}

\* C39: an export entry refers to the binding object of the exported name, so
\* a prefix applied to that name afterwards is in the entry's prefix list and
\* in what another file resolves the name to; once the object is no longer
\* bound (after the per-file reset) no operation changes its prefix list as
\* long as the entry exists, whatever is created or mounted under the name.
C39_ExportEntryIsLive ==
  /\ [][
        /\ (ret'.op = "markExported"
             /\ MapHas(globalRouterTracker.bindings, ret'.identifier)) =>
              LET entries == ExportEntriesOf(globalRouterTracker', ret'.identifier)
              IN /\ entries # <<>>
                 /\ entries[Len(entries)].binding = BindingOf(ret'.identifier)
        /\ (/\ ret'.op = "applyPrefix"
             /\ ret'.result = TRUE
             /\ ~isRootPath(ret'.prefix)
             /\ BindingOf(ret'.identifier) \in ExportedBindings(globalRouterTracker)) =>
              LET a == BindingOf(ret'.identifier)
              IN globalRouterTracker'.heap[a].prefixes
                   = Append(globalRouterTracker.heap[a].prefixes, ret'.prefix)
        /\ ret'.op # "fullReset" =>
              \A a \in ExportedBindings(globalRouterTracker)
                       \ BoundBindings(globalRouterTracker) :
                globalRouterTracker'.heap[a].prefixes
                  = globalRouterTracker.heap[a].prefixes
     ]_vars
  /\ [](/\ ret.op = "getEffectivePrefix"
        /\ ~MapHas(globalRouterTracker.bindings, ret.identifier)
        /\ ExportEntries(ret.identifier) # <<>>
        => ret.result =
             joinPaths(globalRouterTracker.heap[
                         ExportEntries(ret.identifier)[1].binding].prefixes))

\* applyPrefix('r', '/a') in a.js reached the object that the entry exported
\* from a.js before the call refers to
C39_Witness ==
  /\ ret.op = "applyPrefix"
  /\ ret.identifier = "r"
  /\ ret.prefix = P_a
  /\ ret.result = TRUE
  /\ globalRouterTracker.currentFile = "a.js"
  /\ Len(ExportEntries("r")) = 1
  /\ ExportEntries("r")[1].file = "a.js"
  /\ ExportEntries("r")[1].binding = BindingOf("r")
  /\ globalRouterTracker.heap[ExportEntries("r")[1].binding].prefixes = <<P_a>>

\* a tracker without its import records
WithoutImports(rt) == [rt EXCEPT !.imports = <<>>]

\* C28: import records never influence resolution.  registerImport changes
\* nothing but the import records, every other operation does to a tracker
\* without import records what it does to the tracker with them, and returns
\* the same; so two event sequences that differ in registerImport events only
\* get the same answer from every getEffectivePrefix.  A name that has neither
\* a binding nor an export entry of its own is unresolved, whatever import
\* record carries it as local alias.
C28_ImportsNeverRead ==
  [][LET rt == WithoutImports(globalRouterTracker)
         after == WithoutImports(globalRouterTracker')
     IN /\ ret'.op = "registerImport" => after = rt
        /\ ret'.op = "resetFile" => after = resetFile(rt, ret'.file)
        /\ ret'.op = "fullReset" => after = RouterTracker_reset(rt)
        /\ ret'.op = "detectRouterCreation" =>
             after = IF ret'.result
                     THEN registerBinding(rt, ret'.identifier, "express") ELSE rt
        /\ ret'.op = "applyPrefix" =>
             /\ after = applyPrefix(rt, ret'.identifier, ret'.prefix).tracker
             /\ ret'.result = applyPrefix(rt, ret'.identifier, ret'.prefix).result
        /\ ret'.op = "markExported" => after = markExported(rt, ret'.identifier)
        /\ ret'.op = "getEffectivePrefix" =>
             /\ after = rt
             /\ ret'.result = getEffectivePrefix(rt, ret'.identifier)
             /\ (/\ ~MapHas(globalRouterTracker.bindings, ret'.identifier)
                 /\ ~MapHas(globalRouterTracker.exports, ret'.identifier))
                => ret'.result = Null]_vars

\* r is exported with the prefix list <</a>> and imported as s; s is unresolved
C28_Witness ==
  /\ ret.op = "getEffectivePrefix"
  /\ ret.identifier = "s"
  /\ ret.result = Null
  /\ MapHas(globalRouterTracker.imports, "s")
  /\ MapGet(globalRouterTracker.imports, "s")[1].identifier = "r"
  /\ ExportEntries("r") # <<>>
  /\ globalRouterTracker.heap[ExportEntries("r")[1].binding].prefixes = <<P_a>>

\* C29: getEffectivePrefix never returns '' or '/'; for a router without
\* accumulated prefixes it returns null, whether the router is bound in the
\* current file or resolved through the export table.
C29_NoRootPrefix ==
  ret.op = "getEffectivePrefix" =>
    /\ ret.result \notin {P_empty, P_root}
    /\ (/\ ~MapHas(globalRouterTracker.bindings, ret.identifier)
        /\ ExportEntries(ret.identifier) # <<>>
        /\ globalRouterTracker.heap[
              ExportEntries(ret.identifier)[1].binding].prefixes = <<>>)
       => ret.result = Null
    /\ (/\ MapHas(globalRouterTracker.bindings, ret.identifier)
        /\ globalRouterTracker.heap[BindingOf(ret.identifier)].prefixes = <<>>)
       => ret.result = Null

\* C30: from one operation to the next, unless it is a reset, the prefix list
\* of the binding an identifier has in the current file only grows, also when
\* the operation is a router creation under the same identifier.
C30_PrefixListOnlyGrows ==
  [][ret'.op \notin {"resetFile", "fullReset"} =>
       \A identifier \in RouterIds :
         MapHas(globalRouterTracker.bindings, identifier) =>
           /\ MapHas(globalRouterTracker'.bindings, identifier)
           /\ LET before == globalRouterTracker.heap[
                              MapGet(globalRouterTracker.bindings, identifier)].prefixes
                  now == globalRouterTracker'.heap[
                           MapGet(globalRouterTracker'.bindings, identifier)].prefixes
              IN Take(now, Len(before)) = before]_vars

(***************************************************************************)
(* Properties of the cache (SpecCache)                                     *)
(***************************************************************************)
StoredKeys(c) == {c.entries[i].key : i \in 1..Len(c.entries)}

TouchedKeys(history) == {history[i] : i \in 1..Len(history)}

\* the position in the history of the most recent touch of a key
LastTouch(history, key) ==
  CHOOSE i \in 1..Len(history) :
    /\ history[i] = key
    /\ \A j \in (i + 1)..Len(history) : history[j] # key

\* C16: the number of stored entries never exceeds the capacity; after n
\* distinct keys were set into an empty cache it is the smaller of n and the
\* capacity.
C16_SizeWithinCapacity ==
  LET c == pathNormalizationCache
  IN /\ Len(c.entries) <= c.maxSize
     /\ Cardinality(StoredKeys(c)) = Len(c.entries)
     /\ Len(c.entries) = Min({c.maxSize, Cardinality(TouchedKeys(touches))})

\* three distinct keys went into a cache of capacity 2, which holds two entries
C16_Witness ==
  /\ ret.op = "set"
  /\ pathNormalizationCache.maxSize = 2
  /\ Cardinality(TouchedKeys(touches)) = 3
  /\ Len(pathNormalizationCache.entries) = 2

\* C17: a set of a new key into a full cache evicts exactly the stored key whose
\* most recent touch is the oldest; a get hit or a set of a stored key evicts
\* nothing and makes that key the most recently used; the entries are always
\* in the order of their most recent touches.
C17_EvictsLeastRecentlyTouched ==
  [][LET c == pathNormalizationCache
         d == pathNormalizationCache'
         lru == CHOOSE k \in StoredKeys(c) :
                  \A other \in StoredKeys(c) :
                    LastTouch(touches, k) <= LastTouch(touches, other)
     IN /\ (/\ ret'.op = "set"
            /\ ret'.key \notin StoredKeys(c)
            /\ Len(c.entries) = c.maxSize) =>
             StoredKeys(d) = (StoredKeys(c) \ {lru}) \cup {ret'.key}
        /\ (/\ ret'.op \in {"set", "get"}
            /\ ret'.key \in StoredKeys(c)) =>
             /\ StoredKeys(d) = StoredKeys(c)
             /\ d.entries[Len(d.entries)].key = ret'.key
        /\ \A i, j \in 1..Len(d.entries) :
             i < j => LastTouch(touches', d.entries[i].key)
                        < LastTouch(touches', d.entries[j].key)]_vars

\* with k1 then k2 stored in a cache of capacity 2, a hit on k1 made k2 the
\* oldest, and the set of k3 that followed evicted k2
C17_Witness ==
  /\ ret.op = "set"
  /\ ret.key = "k3"
  /\ pathNormalizationCache.maxSize = 2
  /\ touches = <<"k1", "k2", "k1", "k3">>
  /\ StoredKeys(pathNormalizationCache) = {"k1", "k3"}

(***************************************************************************)
(* Properties of normalizePathWithLevel (SpecNormalize)                    *)
(***************************************************************************)
\* C19: normalizing the result of a normalization again, at the same level
\* and with the same preserveConstraints, returns it unchanged.
C19_NormalizeIdempotent ==
  /\ ret.op = "renormalize" => ret.result = ret.path
  /\ ret.op \in {"normalize", "renormalize"} =>
       normalizePathWithLevel(pathNormalizationCache, ret.result, ret.level,
                              ret.preserveConstraints).value = ret.result

\* "u/:a-:b/" became "/u/:param-:param" at level 2 and was normalized again
C19_Witness ==
  /\ ret.op = "renormalize"
  /\ ret.level = 2
  /\ ret.path = <<"/", "u", "/">> \o T_param \o <<"-">> \o T_param
  /\ MapHas(pathNormalizationCache.entries,
            cacheKey(<<"u", "/", ":", "a", "-", ":", "b", "/">>, 2, FALSE))

(***************************************************************************)
(* Properties of the normalization cache (SpecNormalizeCache)              *)
(***************************************************************************)
\* normalizePathWithLevel without its cache
Uncached(path, level, preserveConstraints) ==
  IF path = <<>> THEN <<"/">>
  ELSE IF level = 0 THEN (IF startsWith(path, "/") THEN path ELSE <<"/">> \o path)
  ELSE normalizeSegments(path, level, preserveConstraints)

\* the triples whose cache key is the key of an entry
TriplesOf(key) ==
  {t \in CachedPaths \X {0, 1, 2} \X BOOLEAN : cacheKey(t[1], t[2], t[3]) = key}

\* C31: every value returned by normalize, from the cache or not, is the value
\* of the uncached computation for its triple; every cache entry belongs to
\* exactly one triple and holds that triple's uncached value.
C31_CacheIsTransparent ==
  /\ ret.op = "normalize" =>
       ret.result = Uncached(ret.path, ret.level, ret.preserveConstraints)
  /\ \A i \in 1..Len(pathNormalizationCache.entries) :
       LET entry == pathNormalizationCache.entries[i]
       IN /\ Cardinality(TriplesOf(entry.key)) = 1
          /\ \A t \in TriplesOf(entry.key) :
               entry.value = Uncached(t[1], t[2], t[3])

\* in a cache of capacity 2 three computations were stored, so that one entry
\* was evicted, and the last call was answered from the cache
C31_Witness ==
  /\ ret.op = "normalize"
  /\ pathNormalizationCache.maxSize = 2
  /\ pathNormalizationCache.misses = 3
  /\ pathNormalizationCache.hits = 1
  /\ steps = 0
  /\ pathNormalizationCache.entries[2].key
       = cacheKey(ret.path, ret.level, ret.preserveConstraints)

(***************************************************************************)
(* Properties of detectPathConflict (SpecDetect)                           *)
(***************************************************************************)
OneWildcard(a, b) == (a.type = "wildcard") # (b.type = "wildcard")

OneStatic(a, b) == (a.type = "static") # (b.type = "static")

BothConstrained(a, b) ==
  /\ a.type = "regex-param"
  /\ b.type = "regex-param"
  /\ a.constraint # b.constraint

StopsScan(a, b) == OneWildcard(a, b) \/ OneStatic(a, b) \/ BothConstrained(a, b)

\* C21: for two different paths with equally many segments the first aligned
\* pair, from the left, that meets a stop rule decides the result, by the
\* priority wildcard, static against dynamic, different constraints; paths
\* with different segment counts give none.
C21_FirstStoppingPairDecides ==
  ret.op = "detect" /\ ret.path1 # ret.path2 =>
    LET s1 == parsePathSegments(ret.path1)
        s2 == parsePathSegments(ret.path2)
    IN IF Len(s1) # Len(s2) THEN ret.type = "none"
       ELSE \A i \in 1..Len(s1) :
              (/\ StopsScan(s1[i], s2[i])
               /\ \A j \in 1..(i - 1) : ~StopsScan(s1[j], s2[j])) =>
                ret.type = IF OneWildcard(s1[i], s2[i]) THEN "wildcard"
                           ELSE IF OneStatic(s1[i], s2[i]) THEN "static-dynamic"
                           ELSE "different-constraints"

\* "/:i(a)/*" against "/:i(b)/u": the first pair gives differentConstraints
\* although the second pair sets a wildcard against a static segment
C21_Witness ==
  /\ ret.op = "detect"
  /\ ret.path1 = <<"/", ":", "i", "(", "a", ")", "/", "*">>
  /\ ret.path2 = <<"/", ":", "i", "(", "b", ")", "/", "u">>
  /\ ret.type = "different-constraints"

C32_LevelZeroOneLeadingSlash ==
  (/\ ret.op = "normalize"
   /\ ret.level = 0
   /\ ret.path # <<>>)
  => /\ startsWith(ret.result, "/")
     /\ ~(Len(ret.result) >= 2 /\ ret.result[2] = "/")
     /\ ret.result = <<"/">> \o StripLeadingSlashes(ret.path)

\* a constrained parameter whose constraint text does not compile
Malformed(seg) == seg.type = "regex-param" /\ extractParamConstraint(seg.raw) = Null

\* C34: when the pair that decides the result holds a constrained parameter
\* whose constraint does not compile, the result is not differentConstraints.
C34_MalformedConstraintIgnored ==
  ret.op = "detect" /\ ret.path1 # ret.path2 =>
    LET s1 == parsePathSegments(ret.path1)
        s2 == parsePathSegments(ret.path2)
    IN Len(s1) = Len(s2) =>
         \A i \in 1..Len(s1) :
           (/\ StopsScan(s1[i], s2[i])
            /\ \A j \in 1..(i - 1) : ~StopsScan(s1[j], s2[j])
            /\ Malformed(s1[i]) \/ Malformed(s2[i]))
           => ret.type # "different-constraints"

(***************************************************************************)
(* Properties of joinPaths (SpecJoin)                                      *)
(***************************************************************************)
\* the non-empty pieces of a string between its slashes
Pieces(s) == SelectSeq(SplitSlash(s), NonEmpty)

RECURSIVE Flatten(_)
Flatten(lists) ==
  IF lists = <<>> THEN <<>> ELSE Head(lists) \o Flatten(Tail(lists))

\* the fragments without their leading and trailing slashes, empty ones dropped
Remainders(parts) == SelectSeq(MapSeq(StripSlashes, parts), NonEmpty)

\* C20 as stated: the result is "/" followed by the non-empty remainders
\* joined by single slashes, or "/" when nothing remains.
C20_JoinOfRemainders ==
  ret.op = "join" =>
    ret.result = IF Remainders(ret.parts) = <<>> THEN <<"/">>
                 ELSE <<"/">> \o Join(Remainders(ret.parts), <<"/">>)

\* C20: the result starts with exactly one slash, has no repeated slash and no
\* trailing slash unless it is "/", and between its slashes stand the
\* non-empty pieces of the fragments, in order.
C20_JoinCollapsesSlashes ==
  ret.op = "join" =>
    /\ startsWith(ret.result, "/")
    /\ \A i \in 1..(Len(ret.result) - 1) :
         ~(ret.result[i] = "/" /\ ret.result[i + 1] = "/")
    /\ endsWith(ret.result, "/") => ret.result = <<"/">>
    /\ Pieces(ret.result) = Flatten(MapSeq(Pieces, ret.parts))

\* "a//b" joined with "/a/b/" gave "/a/b/a/b"
C20_Witness ==
  /\ ret.op = "join"
  /\ ret.parts = << <<"a", "/", "/", "b">>, <<"/", "a", "/", "b", "/">> >>
  /\ ret.result = <<"/", "a", "/", "b", "/", "a", "/", "b">>

\* C38: joining the join of the leading fragments with the last fragment gives
\* the join of all fragments, and joining a joined path alone returns it.
C38_JoinOfJoin ==
  (ret.op = "join" /\ ret.parts # <<>>) =>
    /\ joinPaths(<<joinPaths(SubSeq(ret.parts, 1, Len(ret.parts) - 1)),
                   ret.parts[Len(ret.parts)]>>) = ret.result
    /\ joinPaths(<<ret.result>>) = ret.result

\* the prefixes "" and "a//b" and the path "/a/b/" were joined to "/a/b/a/b"
C38_Witness ==
  /\ ret.op = "join"
  /\ Len(ret.parts) = 3
  /\ ret.parts[1] = <<>>
  /\ ret.parts[2] = <<"a", "/", "/", "b">>
  /\ ret.parts[3] = <<"/", "a", "/", "b", "/">>
  /\ ret.result = <<"/", "a", "/", "b", "/", "a", "/", "b">>

\* C33: a get adds one to hits when its key is stored at the call and one to
\* misses otherwise, and a miss leaves the entries alone; a set changes
\* neither counter; a clear leaves hits, misses and size at 0.  So hits +
\* misses counts the gets since construction or the last clear.
C33_CountersCountGets ==
  [][LET c == pathNormalizationCache
         d == pathNormalizationCache'
     IN /\ ret'.op = "get" =>
             IF ret'.key \in StoredKeys(c)
             THEN d.hits = c.hits + 1 /\ d.misses = c.misses
             ELSE /\ d.hits = c.hits /\ d.misses = c.misses + 1
                  /\ d.entries = c.entries
        /\ ret'.op = "set" => d.hits = c.hits /\ d.misses = c.misses
        /\ ret'.op = "clear" =>
             d.hits = 0 /\ d.misses = 0 /\ Len(d.entries) = 0]_vars

\* a get of a stored key after one miss and one hit: two hits, one miss
C33_Witness ==
  /\ ret.op = "get"
  /\ ret.value # Undefined
  /\ pathNormalizationCache.hits = 2
  /\ pathNormalizationCache.misses = 1

(***************************************************************************)
(* Properties of the rule on files that register routes (SpecRoutes)       *)
(***************************************************************************)
\* C2: at every normalization level, a route call whose method and path text
\* equal those of an earlier route call of the run is reported.
C2_SameRawPathReported ==
  (/\ ret.op = "CallExpression"
   /\ ret.isRoute
   /\ \E i \in 1..(Len(calls) - 1) :
        /\ calls[i].rawPath = ret.rawPath
        /\ registered[i].method = ret.route.method)
  => ret.reported

\* C3: the Program event of a file leaves the routes recorded from the other
\* files of the run in the ledger.
C3_EarlierFilesStayInLedger ==
  [][ret'.op = "Program" =>
       \A i \in 1..Len(globalTracker.routes) :
         globalTracker.routes[i].value.file # ret'.file =>
           MapHas(globalTracker'.routes, globalTracker.routes[i].key)]_vars

\* the route paths that differ only in the name of the parameter
ParamNamePaths == {P_u_i, P_u_j}

\* an earlier route call of the run with the method of the last one and a path
\* text from the given set
EarlierCallWith(paths) ==
  \E i \in 1..(Len(calls) - 1) :
    /\ calls[i].rawPath \in paths
    /\ registered[i].method = ret.route.method

SecondAfterFirst(first, second) ==
  /\ ret.op = "CallExpression"
  /\ ret.isRoute
  /\ ret.rawPath = second
  /\ Len(calls) >= 2
  /\ \A i \in 1..(Len(calls) - 1) :
       calls[i].rawPath = first /\ registered[i].method = ret.route.method

\* C14: with warnOnStaticVsDynamic enabled, the second of '/u/x' and '/u/:i'
\* registered with the same method, in either order, is reported.
C14_StaticVsDynamicWarned ==
  (/\ rule.options.warnOnStaticVsDynamic
   /\ SecondAfterFirst(P_u_x, P_u_i) \/ SecondAfterFirst(P_u_i, P_u_x))
  => ret.reported

\* C15: for '/u/:i(a)' and '/u/:i(b)' registered with the same method, with
\* preserveConstraints the second is not reported as a duplicate, and without
\* it (at levels 1 and 2) the second is reported as a duplicate.
C15_ConstraintsPreserved ==
  (SecondAfterFirst(P_u_ia, P_u_ib) \/ SecondAfterFirst(P_u_ib, P_u_ia))
  => /\ rule.options.preserveConstraints =>
          ~(ret.reported /\ reports[Len(reports)].messageId = "duplicateRoute")
     /\ (~rule.options.preserveConstraints /\ rule.normalizationLevel > 0) =>
          (ret.reported /\ reports[Len(reports)].messageId = "duplicateRoute")

\* C18: after globalTracker.clear() the path-normalization and the
\* framework-detection cache are empty, and after the Program event that starts
\* a new run they hold nothing but what that event itself stored (the detected
\* framework of its file).
C18_CachesClearedBetweenRuns ==
  [][/\ ret'.op = "clear" =>
          /\ pathNormalizationCache'.entries = <<>>
          /\ frameworkDetectionCache'.entries = <<>>
     /\ (/\ ret'.op = "Program"
         /\ globalTracker'.currentLintId # globalTracker.currentLintId) =>
          /\ pathNormalizationCache'.entries = <<>>
          /\ \A i \in 1..Len(frameworkDetectionCache'.entries) :
               frameworkDetectionCache'.entries[i].key = ret'.file]_vars

SameOutcome(flipped) ==
  /\ flipped.isRoute
  /\ flipped.tracker = globalTracker'
  /\ reports' = reports \o flipped.report
  /\ flipped.route = ret'.route
  /\ flipped.conflict = ret'.conflict

C25_DynamicMountDropped ==
  /\ [][(/\ ret'.op = "CallExpression"
         /\ ~ret'.isRoute
         /\ ret'.firstArgument \in {"Identifier", "TemplateWithExpressions"})
        => /\ globalRouterTracker' = globalRouterTracker
           /\ globalTracker' = globalTracker
           /\ reports' = reports]_vars
  /\ [](/\ ret.op = "CallExpression"
        /\ ret.isRoute
        /\ MapHas(globalRouterTracker.bindings, ret.object)
        => LET applied == Take(attempts[BindingOf(ret.object)],
                               globalRouterTracker.maxDepth)
           IN ret.effectivePath =
                IF applied = <<>> THEN ret.rawPath
                ELSE joinPaths(<<joinPaths(applied), ret.rawPath>>))

\* `app.use(\`/a${base}\`, r)` was visited while r had the prefix list <</a>>
C25_Witness ==
  /\ ret.op = "CallExpression"
  /\ ~ret.isRoute
  /\ ret.firstArgument = "TemplateWithExpressions"
  /\ MapHas(globalRouterTracker.bindings, "r")
  /\ globalRouterTracker.heap[BindingOf("r")].prefixes = <<P_a>>

\* the keys of the ledger
LedgerKeys(t) == {t.routes[i].key : i \in 1..Len(t.routes)}

\* C37: a mount of r below the depth ceiling appends its prefix to the one
\* binding object r has and uses one more depth level; a route registered on
\* r after the mounts p and q has the effective path join(p, q, path) and adds
\* to the ledger no key but the one of that path.
C37_MountsNest ==
  [][/\ (/\ ret'.op = "CallExpression"
          /\ MapHas(globalRouterTracker.bindings, "r")
          /\ attempts'[BindingOf("r")] # attempts[BindingOf("r")]
          /\ Len(attempts[BindingOf("r")]) < globalRouterTracker.maxDepth)
         => LET a == BindingOf("r")
                binding == globalRouterTracker.heap[a]
                prefix == attempts'[a][Len(attempts'[a])]
            IN /\ globalRouterTracker'.bindings = globalRouterTracker.bindings
               /\ Len(globalRouterTracker'.heap) = Len(globalRouterTracker.heap)
               /\ globalRouterTracker'.heap[a].prefixes = Append(binding.prefixes, prefix)
               /\ globalRouterTracker'.heap[a].depth = binding.depth + 1
     /\ (/\ ret'.op = "CallExpression"
          /\ ret'.isRoute
          /\ MapHas(globalRouterTracker.bindings, ret'.object)
          /\ Len(globalRouterTracker.heap[BindingOf(ret'.object)].prefixes) = 2)
         => LET prefixes == globalRouterTracker.heap[BindingOf(ret'.object)].prefixes
                joined == joinPaths(<<prefixes[1], prefixes[2], ret'.rawPath>>)
            IN /\ ret'.effectivePath = joined
               /\ ret'.route.path =
                    normalizePathWithLevel(pathNormalizationCache, joined,
                                           rule.normalizationLevel,
                                           rule.options.preserveConstraints).value
               /\ LedgerKeys(globalTracker') \subseteq
                    LedgerKeys(globalTracker) \cup {routeKey(ret'.route)}]_vars

\* r.get('/u') after app.use('/a', r) and app.use('/v', r) was recorded under
\* '/a/v/u' alone
C37_Witness ==
  /\ ret.op = "CallExpression"
  /\ ret.isRoute
  /\ MapHas(globalRouterTracker.bindings, "r")
  /\ globalRouterTracker.heap[BindingOf("r")].prefixes = <<P_a, P_slash_v>>
  /\ globalRouterTracker.heap[BindingOf("r")].depth = 2
  /\ ret.effectivePath = P_avu
  /\ LedgerKeys(globalTracker) = {routeKey(ret.route)}
  /\ ret.route.path = P_avu

(***************************************************************************)
(* Properties of the rule on files with routers (SpecRule).  The only      *)
(* statement that mounts s is r.use('/v', s), the only one that mounts r   *)
(* is app.use('/a', r).                                                    *)
(***************************************************************************)
\* C7: with s mounted on r under '/v' and r mounted on the application under
\* '/a', a route registered on s has the effective path join('/a', '/v', path).
C7_NestedMountsCompose ==
  LET rt == globalRouterTracker
  IN (/\ ret.op = "CallExpression"
      /\ ret.isRoute
      /\ ret.object = "s"
      /\ MapHas(rt.bindings, "r")
      /\ MapHas(rt.bindings, "s")
      /\ attempts[BindingOf("r")] = <<P_a>>
      /\ attempts[BindingOf("s")] = <<P_slash_v>>)
     => ret.effectivePath = joinPaths(<<joinPaths(<<P_a, P_slash_v>>), ret.rawPath>>)

\* C8: a route call on the application is reported when an earlier route call
\* of the same file and method was made on a router whose mount prefixes,
\* applied before or after that call, joined with its path give the same path.
C8_MountAfterRouteStillPrefixed ==
  LET rt == globalRouterTracker
  IN (/\ ret.op = "CallExpression"
      /\ ret.isRoute
      /\ ret.object = "app"
      /\ \E i \in 1..(Len(calls) - 1) :
           /\ calls[i].binding # 0
           /\ registered[i].file = ret.route.file
           /\ registered[i].method = ret.route.method
           /\ attempts[calls[i].binding] # <<>>
           /\ Len(attempts[calls[i].binding]) <= rt.maxDepth
           /\ ret.rawPath = joinPaths(<<joinPaths(attempts[calls[i].binding]),
                                        calls[i].rawPath>>))
     => ret.reported

\* C10: once the export event of `export const r = express.Router()` and then
\* the router-creation event of its declarator were handled, the export table
\* holds r with the binding that declarator created.
C10_ExportedDeclarationRecorded ==
  [][(/\ ret.op = "ExportNamedDeclaration"
      /\ ret'.op = "VariableDeclarator"
      /\ ret'.result)
     => LET rt == globalRouterTracker'
        IN /\ MapHas(rt.exports, "r")
           /\ \E i \in 1..Len(MapGet(rt.exports, "r")) :
                MapGet(rt.exports, "r")[i].binding = MapGet(rt.bindings, "r")]_vars

====
